---- MODULE Spec2Model ----
(***************************************************************************)
(* Model of the escalation evaluators of the SVAI reference modules:       *)
(*   BusinessOperationsVAA       (src/business_operations_vaa.py)          *)
(*   DemandForecastingVAA        (src/supply_chain_vaa_engine.py)          *)
(*   SupplyChainVAAOrchestrator  (src/supply_chain_vaa_engine.py)          *)
(*   MarketingVAA                (src/marketing_vaa_orchestration.py)      *)
(*   Stage3PilotValidationFramework (src/svai_governance_toolkit.py)       *)
(*                                                                         *)
(* Units.  The Python code works on floats.  In BusinessOperationsVAA and  *)
(* MarketingVAA every float the code can produce on the modelled inputs is *)
(* a decimal with at most two places, and the float comparisons on them    *)
(* agree with the decimal ones (the averages 0.9, 0.5, 0.7, (0.9+0.7)/2,   *)
(* (0.5+0.7)/2, 0.8, 0.4, 1.0, (0.8+1.0)/2 and (0.4+1.0)/2 are the doubles *)
(* 0.9 ... 0.7).  There the model uses scaled integers:                    *)
(*   amount                 whole dollars                                  *)
(*   risk scores            hundredths          (0.9   -> 90)              *)
(*   po_invoice_variance    basis points        (0.02  -> 200)             *)
(*   vendor_rating          tenths              (3.5   -> 35)              *)
(*   hours                  quarter hours       (0.25  -> 1)               *)
(*   fairness_score         hundredths          (0.70  -> 70)              *)
(*   conversion rates       ten-thousandths     (0.042 -> 420)             *)
(* In DemandForecastingVAA and Stage3PilotValidationFramework the floats   *)
(* are products, quotients and random draws, truncated by int() and        *)
(* formatted by :.2f; there the model computes in IEEE 754 doubles (the    *)
(* section "doubles").                                                     *)
(* A ratio the code only reports is kept as the pair of its numerator and  *)
(* denominator, and compared by cross-multiplication.                      *)
(* Identifiers made by uuid4() are modelled by the ordinal of the call     *)
(* that makes them; timestamps and the random confidence figures that the  *)
(* code only copies into reports are left out of the records.  Of the two  *)
(* timestamps monitor_workflow_exceptions reads back, started_timestamp    *)
(* and expected_completion, the records keep the difference.               *)
(***************************************************************************)
EXTENDS Integers, Sequences, FiniteSets, TLC

VARIABLES
    \* ---- BusinessOperationsVAA fields
    process_log,            \* self.process_log
    escalation_queue,       \* self.escalation_queue
    decision_audit_trail,   \* self.decision_audit_trail
    compliance_rules,       \* self.compliance_rules
    \* ---- the caller of the BusinessOperationsVAA (the locals of __main__)
    input,                  \* sample_input
    pathway,                \* pathway returned by classify_input
    classification,         \* classification returned by classify_input
    compliance_check,       \* result (or exception) of validate_business_rules
    allocation,             \* result of allocate_resources
    execution,              \* result of execute_task
    human_approval,         \* the human_approval argument of the last execute_task
    calls,                  \* number of execute_task calls made so far
    exceptions,             \* result of monitor_workflow_exceptions
    threads,                \* the execute_task calls that run concurrently
    \* ---- DemandForecastingVAA fields
    autonomy_level,         \* self.autonomy_level
    decision_log,           \* self.decision_log
    sc_escalation_queue,    \* self.escalation_queue of the DemandForecastingVAA
    model_version,          \* self.model_version
    \* ---- the caller of the DemandForecastingVAA
    action,                 \* action returned by generate_inventory_recommendation
    approved_by_planner,    \* the approved_by_planner argument of the last execution
    result,                 \* result of execute_inventory_action
    sc_calls,               \* number of execute_inventory_action calls made so far
    \* ---- SupplyChainVAAOrchestrator fields
    vaas,                   \* self.vaas: location_id -> DemandForecastingVAA
    governance_log,         \* self.governance_log
    orch_escalation_queue,  \* self.escalation_queue of the orchestrator
    \* ---- the caller of the SupplyChainVAAOrchestrator
    audit_vaa_id,           \* the vaa_id argument of the last audit
    audit,                  \* result of audit_governance_compliance
    cycle_args,             \* the arguments of the last process_inventory_cycle
    cycle_results,          \* result of process_inventory_cycle
    \* ---- MarketingVAA fields
    campaigns,              \* self.campaigns
    segments,               \* self.segments
    performance_log,        \* self.performance_log
    ethical_audit_trail,    \* self.ethical_audit_trail
    fairness_constraints,   \* self.fairness_constraints
    \* ---- the caller of the MarketingVAA
    checked_segment,        \* the segment argument of the last fairness validation
    fairness_check,         \* result of _validate_segment_fairness
    mk_result,              \* result of the last other MarketingVAA operation
    mk_calls,               \* number of MarketingVAA calls that made an identifier
    \* ---- Stage3PilotValidationFramework fields
    pilot_metrics,          \* self.pilot_metrics
    \* ---- the caller of the Stage3PilotValidationFramework
    pilot_actual_metrics,   \* the actual_metrics argument of the last validation
    validation              \* result of validate_pilot_results

vaa_fields == <<process_log, escalation_queue, decision_audit_trail, compliance_rules>>

bo_vars == <<vaa_fields, input, pathway, classification, compliance_check, allocation,
             execution, human_approval, calls, exceptions>>

sc_fields == <<autonomy_level, decision_log, sc_escalation_queue, model_version>>

sc_vars == <<sc_fields, action, approved_by_planner, result, sc_calls>>

orch_fields == <<vaas, governance_log, orch_escalation_queue>>

orch_vars == <<orch_fields, audit_vaa_id, audit, cycle_args, cycle_results>>

mk_fields == <<campaigns, segments, performance_log, ethical_audit_trail,
               fairness_constraints>>

mk_vars == <<mk_fields, checked_segment, fairness_check, mk_result, mk_calls>>

pilot_vars == <<pilot_metrics, pilot_actual_metrics, validation>>

\* the variables an operation of one agent leaves alone: those of the others
beside_bo == <<sc_vars, orch_vars, mk_vars, pilot_vars, threads>>

beside_sc == <<bo_vars, orch_vars, mk_vars, pilot_vars, threads>>

beside_orch == <<bo_vars, sc_vars, mk_vars, pilot_vars, threads>>

beside_mk == <<bo_vars, sc_vars, orch_vars, pilot_vars, threads>>

beside_pilot == <<bo_vars, sc_vars, orch_vars, mk_vars, threads>>

vars == <<bo_vars, sc_vars, orch_vars, mk_vars, pilot_vars, threads>>

\* ------------------------------------------------------------------ bounds
\* execute_task calls, execute_inventory_action calls (of one VAA), and
\* MarketingVAA calls that make an identifier, made in one behaviour
MaxCalls == 2

\* ------------------------------------------------------------------ values
\* Python's None, for a local that holds no value yet
None == [none |-> TRUE]

GREEN == "green"
YELLOW == "yellow"
RED == "red"

ComplianceLevel == {GREEN, YELLOW, RED}

\* the order of the ComplianceLevel members: GREEN < YELLOW < RED
Severity(level) ==
    CASE level = GREEN -> 0
      [] level = YELLOW -> 1
      [] level = RED -> 2

\* an empty dict
EmptyDict == [k \in {} |-> 0]

\* dict.get(key, default)
Get(dict, key, default) == IF key \in DOMAIN dict THEN dict[key] ELSE default

\* sum(list)
RECURSIVE Sum(_)
Sum(s) == IF Len(s) = 0 THEN 0 ELSE Head(s) + Sum(Tail(s))

\* a / b of Python: raises ZeroDivisionError when b is 0
Div(a, b) ==
    IF b = 0 THEN [raises |-> "ZeroDivisionError"]
    ELSE [raises |-> "none", value |-> a \div b]

\* BusinessOperationsVAA._initialize_compliance_rules
initialize_compliance_rules ==
    [procurement |->
        [max_autonomous_approval |-> 50000,
         requires_review_above |-> 100000,
         vendor_whitelist_check |-> TRUE,
         compliance_rules |-> <<"three_way_match", "vendor_rating_minimum">>],
     invoicing |->
        [auto_match_variance_tolerance |-> 200,
         escalate_variance_above |-> 500,
         duplicate_check_required |-> TRUE,
         compliance_rules |-> <<"no_duplicate_invoices", "currency_validation">>],
     resource_allocation |->
        [max_concurrent_assignments |-> 3,
         skill_match_required |-> TRUE,
         availability_buffer_hours |-> 4,
         compliance_rules |-> <<"labor_hour_limits", "skill_certification">>]]

\* ------------------------------------------------------------------ inputs
NoMetadata == [k \in {} |-> 0]

ProcurementAmounts == {-1, 49999, 50000, 50001, 75000, 100000, 100001, 150000}
VendorRatings == {34, 35, 42}
Variances == {-100, 0, 200, 201, 300, 500, 501, 800}

ProcurementInputs ==
    { [input_id |-> "PROC_001", input_type |-> "procurement_request",
       entity_id |-> "vendor_xyz_corp",
       amount |-> a, metadata |-> m, priority_level |-> 2] :
        a \in ProcurementAmounts,
        m \in {NoMetadata} \cup {[vendor_rating |-> r] : r \in VendorRatings} }

InvoiceInputs ==
    { [input_id |-> "INV_001", input_type |-> "invoice",
       entity_id |-> "vendor_xyz_corp",
       amount |-> 1200, metadata |-> m, priority_level |-> 3] :
        m \in {NoMetadata}
              \cup {[po_invoice_variance |-> v] : v \in Variances}
              \cup {[is_duplicate |-> d] : d \in BOOLEAN}
              \cup {[po_invoice_variance |-> v, is_duplicate |-> d] :
                        v \in Variances, d \in BOOLEAN} }

OtherInputs ==
    { [input_id |-> "OPS_001", input_type |-> t,
       entity_id |-> "vendor_xyz_corp", amount |-> 1200,
       metadata |-> NoMetadata, priority_level |-> 3] :
        t \in {"compliance_check", "allocation", "audit_request"} }

\* the inputs the evaluation is checked on
Inputs == ProcurementInputs \cup InvoiceInputs \cup OtherInputs

\* the inputs the stateful operations are run on: one that is executed
\* autonomously (GREEN), one that needs an approval (YELLOW) and one whose
\* validation raises
TaskInputs ==
    { i \in Inputs :
        \/ /\ i.input_type = "procurement_request"
           /\ i.amount \in {49999, 75000}
           /\ i.metadata = [vendor_rating |-> 42]
        \/ i.input_type = "compliance_check" }

\* the approvers a caller passes as human_approval
Approvers == {"cfo"}

\* ------------------------------------------------- BusinessOperationsVAA
\* classify_input: the process pathway of an input type
process_pathway(input_type) ==
    CASE input_type = "procurement_request" -> "procurement_validation_routing"
      [] input_type = "invoice" -> "three_way_match_and_payment"
      [] input_type = "compliance_check" -> "regulatory_assessment"
      [] input_type = "allocation" -> "resource_optimization"
      [] OTHER -> "default_processing"

\* classify_input: the classification_result dictionary
classify_input(input_data) ==
    [input_id |-> input_data.input_id,
     classified_type |-> input_data.input_type,
     process_pathway |-> process_pathway(input_data.input_type),
     estimated_processing_time_hours |->
        IF input_data.input_type = "procurement_request"
        THEN (IF input_data.amount < 50000 THEN 2 ELSE 6)
        ELSE IF input_data.input_type = "invoice" THEN 1 ELSE 4]

\* procurement_findings with the two amount tests in the other order: an
\* amount above requires_review_above is caught by the lower test first
procurement_findings_lower_test_first(input_data, rules) ==
    LET amount_rule ==
            IF input_data.amount > rules.max_autonomous_approval
            THEN <<[violation |-> "amount_in_semi_autonomous_range", risk |-> 50]>>
            ELSE IF input_data.amount > rules.requires_review_above
            THEN <<[violation |-> "amount_exceeds_review_threshold", risk |-> 90]>>
            ELSE <<>>
        vendor_rating == Get(input_data.metadata, "vendor_rating", 0)
        vendor_rule ==
            IF rules.vendor_whitelist_check /\ vendor_rating < 35
            THEN <<[violation |-> "vendor_rating_below_minimum", risk |-> 70]>>
            ELSE <<>>
    IN amount_rule \o vendor_rule

\* procurement_findings where a request without vendor_rating passes the
\* rating rule: metadata.get('vendor_rating', 3.5) in place of 0
procurement_findings_unrated_passes(input_data, rules) ==
    LET amount_rule ==
            IF input_data.amount > rules.requires_review_above
            THEN <<[violation |-> "amount_exceeds_review_threshold", risk |-> 90]>>
            ELSE IF input_data.amount > rules.max_autonomous_approval
            THEN <<[violation |-> "amount_in_semi_autonomous_range", risk |-> 50]>>
            ELSE <<>>
        vendor_rating == Get(input_data.metadata, "vendor_rating", 35)
        vendor_rule ==
            IF rules.vendor_whitelist_check /\ vendor_rating < 35
            THEN <<[violation |-> "vendor_rating_below_minimum", risk |-> 70]>>
            ELSE <<>>
    IN amount_rule \o vendor_rule

\* validate_business_rules, procurement branch: the (violation, risk) pairs
\* appended to rule_violations and risk_scores, in order
procurement_findings(input_data, rules) ==
    LET amount_rule ==
            IF input_data.amount > rules.requires_review_above
            THEN <<[violation |-> "amount_exceeds_review_threshold", risk |-> 90]>>
            ELSE IF input_data.amount > rules.max_autonomous_approval
            THEN <<[violation |-> "amount_in_semi_autonomous_range", risk |-> 50]>>
            ELSE <<>>
        vendor_rating == Get(input_data.metadata, "vendor_rating", 0)
        vendor_rule ==
            IF rules.vendor_whitelist_check /\ vendor_rating < 35
            THEN <<[violation |-> "vendor_rating_below_minimum", risk |-> 70]>>
            ELSE <<>>
    IN amount_rule \o vendor_rule

\* invoice_findings that tests is_duplicate only when the variance raised no
\* finding
invoice_findings_duplicate_elif(input_data, rules) ==
    LET variance == Get(input_data.metadata, "po_invoice_variance", 0)
        is_duplicate == Get(input_data.metadata, "is_duplicate", FALSE)
    IN IF variance > rules.escalate_variance_above
       THEN <<[violation |-> "variance_exceeds_threshold", risk |-> 80]>>
       ELSE IF variance > rules.auto_match_variance_tolerance
       THEN <<[violation |-> "variance_requires_review", risk |-> 40]>>
       ELSE IF is_duplicate
       THEN <<[violation |-> "duplicate_invoice_detected", risk |-> 100]>>
       ELSE <<>>

\* validate_business_rules, invoice branch
invoice_findings(input_data, rules) ==
    LET variance == Get(input_data.metadata, "po_invoice_variance", 0)
        variance_rule ==
            IF variance > rules.escalate_variance_above
            THEN <<[violation |-> "variance_exceeds_threshold", risk |-> 80]>>
            ELSE IF variance > rules.auto_match_variance_tolerance
            THEN <<[violation |-> "variance_requires_review", risk |-> 40]>>
            ELSE <<>>
        is_duplicate == Get(input_data.metadata, "is_duplicate", FALSE)
        duplicate_rule ==
            IF is_duplicate
            THEN <<[violation |-> "duplicate_invoice_detected", risk |-> 100]>>
            ELSE <<>>
    IN variance_rule \o duplicate_rule

\* validate_business_rules: the findings of the branch the pathway selects
findings(input_data, path, self_rules) ==
    IF path = "procurement_validation_routing"
    THEN procurement_findings(input_data, self_rules.procurement)
    ELSE IF path = "three_way_match_and_payment"
    THEN invoice_findings(input_data, self_rules.invoicing)
    ELSE <<>>

\* avg_risk without the test for an empty list
avg_risk_unguarded(risk_scores) == Div(Sum(risk_scores), Len(risk_scores))

\* validate_business_rules: avg_risk
avg_risk(risk_scores) ==
    IF Len(risk_scores) # 0
    THEN Div(Sum(risk_scores), Len(risk_scores))
    ELSE [raises |-> "none", value |-> 0]

\* compliance_status with >= in place of >
compliance_status_inclusive(avg) ==
    IF avg >= 70 THEN RED
    ELSE IF avg >= 40 THEN YELLOW
    ELSE GREEN

\* validate_business_rules: the compliance level of an average risk
compliance_status(avg) ==
    IF avg > 70 THEN RED
    ELSE IF avg > 40 THEN YELLOW
    ELSE GREEN

\* requires_review that asks for a review of RED alone
requires_review_red_only(status) == status = RED

\* validate_business_rules: requires_review
requires_review(status) == status \in {YELLOW, RED}

\* validate_business_rules: whether the local variable rules was assigned
rules_bound(path) ==
    path \in {"procurement_validation_routing", "three_way_match_and_payment"}

\* validate_business_rules: the ComplianceCheckResult returned, or the
\* exception raised
validate_business_rules(input_data, path, self_rules) ==
    LET found == findings(input_data, path, self_rules)
        rule_violations == [k \in 1..Len(found) |-> found[k].violation]
        risk_scores == [k \in 1..Len(found) |-> found[k].risk]
        avg == avg_risk(risk_scores)
    IN  IF avg.raises # "none"
        THEN [raises |-> avg.raises]
        ELSE IF ~rules_bound(path)
        THEN [raises |-> "UnboundLocalError"]
        ELSE [raises |-> "none",
              entity_id |-> input_data.entity_id,
              compliance_status |-> compliance_status(avg.value),
              rule_violations |-> rule_violations,
              risk_score |-> avg.value,
              requires_human_review |-> requires_review(compliance_status(avg.value)),
              rules_checked |->
                  IF path = "procurement_validation_routing"
                  THEN self_rules.procurement.compliance_rules
                  ELSE self_rules.invoicing.compliance_rules]

\* allocate_resources: team_map.get(pathway, 'general_ops_team')
assigned_team(path) ==
    CASE path = "procurement_validation_routing" -> "procurement_team"
      [] path = "three_way_match_and_payment" -> "accounts_payable_team"
      [] path = "regulatory_assessment" -> "compliance_team"
      [] path = "resource_optimization" -> "operations_team"
      [] OTHER -> "general_ops_team"

\* _get_available_resources: team_roster.get(team, [])
team_roster(team) ==
    CASE team = "procurement_team" -> <<"proc_001", "proc_002", "proc_003">>
      [] team = "accounts_payable_team" -> <<"ap_001", "ap_002", "ap_003", "ap_004">>
      [] team = "compliance_team" -> <<"comp_001", "comp_002">>
      [] team = "operations_team" -> <<"ops_001", "ops_002", "ops_003">>
      [] OTHER -> <<>>

\* the outcomes of the random.random() > 0.3 draws of one call, each the set
\* of roster positions whose draw fails.  allocate_resources reads the first
\* kept member and whether anybody was kept, so the draws after the first
\* kept member change nothing: one pattern stands for each first kept member
\* of the longest roster (four members), and one for nobody kept
BusyPatterns == { 1..k : k \in 0..4 }

\* list[:n]
Take(s, n) == [k \in 1..(IF Len(s) < n THEN Len(s) ELSE n) |-> s[k]]

\* the positions of a roster whose member is kept by the filter, in order
RECURSIVE KeptFrom(_, _, _)
KeptFrom(roster, busy, k) ==
    IF k > Len(roster) THEN <<>>
    ELSE (IF k \in busy THEN <<>> ELSE <<roster[k]>>) \o KeptFrom(roster, busy, k + 1)

\* _get_available_resources(team, max_assignments), busy being the draws
get_available_resources(team, max_assignments, busy) ==
    Take(KeptFrom(team_roster(team), busy, 1), max_assignments)

\* allocate_resources: priority_hours.get(priority, 24)
priority_hours(priority) ==
    CASE priority = 1 -> 4
      [] priority = 2 -> 8
      [] priority = 3 -> 24
      [] priority = 4 -> 72
      [] OTHER -> 24

\* allocate_resources: the ResourceAllocation returned
allocate_resources(input_data, path, priority, self_rules, busy) ==
    LET team == assigned_team(path)
        available_resources ==
            get_available_resources(
                team, self_rules.resource_allocation.max_concurrent_assignments, busy)
    IN [task_id |-> input_data.input_id,
        assigned_team |-> team,
        assigned_to |-> IF Len(available_resources) # 0
                        THEN available_resources[1] ELSE team \o "_default",
        estimated_hours |-> Get(input_data.metadata, "estimated_hours", 4),
        deadline_hours |-> priority_hours(priority),
        priority |-> priority,
        resource_availability_check |-> Len(available_resources) # 0,
        allocation_confidence |-> IF Len(available_resources) # 0 THEN 95 ELSE 60]

\* must_escalate that escalates RED results alone
must_escalate_red_only(check, approval) ==
    check.compliance_status = RED /\ approval = None

\* execute_task: the guard of the escalation protocol
must_escalate(check, approval) ==
    check.requires_human_review /\ approval = None

\* execute_task: escalation_record
escalation_record(execution_id, input_data, check, alloc) ==
    [status |-> "escalated",
     execution_id |-> execution_id,
     input_id |-> input_data.input_id,
     escalation_reason |-> "compliance_review_required",
     compliance_issues |-> check.rule_violations,
     risk_score |-> check.risk_score,
     awaiting_approval_from |-> alloc.assigned_to]

\* execute_task: executed_by
executed_by(approval) ==
    IF approval = None THEN "vaa_autonomous" ELSE "approver_" \o approval.id

\* execute_task, lines 366 and 367: the microseconds from the datetime.now()
\* that started_timestamp holds to the datetime.now() that
\* expected_completion is counted from.  The two readings are of a clock of
\* microseconds that is not set back between them: they are the same
\* reading or the second is later
ClockGaps == {0, 1}

\* execute_task: execution_result, clock_gap being the microseconds between
\* its two readings of the clock
execution_result(execution_id, input_data, classif, check, alloc, approval, clock_gap) ==
    [status |-> "executing",
     execution_id |-> execution_id,
     input_id |-> input_data.input_id,
     process_pathway |-> classif.process_pathway,
     assigned_team |-> alloc.assigned_team,
     assigned_to |-> alloc.assigned_to,
     \* expected_completion less started_timestamp: the timedelta added to
     \* the second datetime.now(), in quarter hours, and the microseconds
     \* between the readings
     expected_completion |-> [quarters |-> alloc.estimated_hours,
                              microseconds |-> clock_gap],
     executed_by |-> executed_by(approval),
     audit_trail |->
        [compliance_status |-> check.compliance_status,
         compliance_risk_score |-> check.risk_score,
         allocation_confidence |-> alloc.allocation_confidence,
         audit_log_id |-> execution_id]]

\* an assignment of a one-entry list in place of list.append: what was
\* logged before is lost
list_overwrite(list, record) == <<record>>

\* an insertion at the front in place of list.append
list_prepend(list, record) == <<record>> \o list

\* list.append(record)
list_append(list, record) == Append(list, record)

\* ------------------------------------------------------------------ doubles
\* The floats of the code are IEEE 754 doubles.  A double is modelled by its
\* value, [neg, m, e] standing for m * 2^e (negated when neg), with m odd or
\* zero so that equal values are equal records.  m has up to 53 bits, more
\* than an integer of the checker holds, and is written as a sequence of
\* limbs of 15 bits, lowest first, without leading zero limbs (<<>> is 0).
\* Every operation computes the exact result and rounds it to 53 bits, ties
\* to even, as the hardware does; overflow, subnormals and NaN are outside
\* the values of the program.

\* a natural number without its leading zero limbs
RECURSIVE BigNorm(_)
BigNorm(a) ==
    IF a = <<>> THEN <<>>
    ELSE IF a[Len(a)] = 0 THEN BigNorm(SubSeq(a, 1, Len(a) - 1))
    ELSE a

\* the limbs of a natural number of the checker
RECURSIVE BigOfInt(_)
BigOfInt(n) == IF n = 0 THEN <<>> ELSE <<n % 32768>> \o BigOfInt(n \div 32768)

\* the natural number of the checker with the given limbs
RECURSIVE BigToInt(_)
BigToInt(a) == IF a = <<>> THEN 0 ELSE a[1] + 32768 * BigToInt(Tail(a))

\* a + b + c, c being the carry
RECURSIVE BigAddCarry(_, _, _)
BigAddCarry(a, b, c) ==
    IF a = <<>> /\ b = <<>> THEN (IF c = 0 THEN <<>> ELSE <<c>>)
    ELSE LET s == (IF a = <<>> THEN 0 ELSE a[1]) + (IF b = <<>> THEN 0 ELSE b[1]) + c
         IN <<s % 32768>> \o BigAddCarry(IF a = <<>> THEN <<>> ELSE Tail(a),
                                         IF b = <<>> THEN <<>> ELSE Tail(b),
                                         s \div 32768)

BigAdd(a, b) == BigAddCarry(a, b, 0)

\* a - b - c for a >= b + c, c being the borrow; leading zero limbs are kept
RECURSIVE BigSubBorrow(_, _, _)
BigSubBorrow(a, b, c) ==
    IF a = <<>> THEN <<>>
    ELSE LET d == a[1] - (IF b = <<>> THEN 0 ELSE b[1]) - c
         IN <<IF d < 0 THEN d + 32768 ELSE d>>
            \o BigSubBorrow(Tail(a), IF b = <<>> THEN <<>> ELSE Tail(b),
                            IF d < 0 THEN 1 ELSE 0)

BigSub(a, b) == BigNorm(BigSubBorrow(a, b, 0))

\* -1, 0 or 1 as the first k limbs of a are below, equal to or above those
\* of b
RECURSIVE BigCmpFrom(_, _, _)
BigCmpFrom(a, b, k) ==
    IF k = 0 THEN 0
    ELSE IF a[k] < b[k] THEN -1
    ELSE IF a[k] > b[k] THEN 1
    ELSE BigCmpFrom(a, b, k - 1)

\* -1, 0 or 1 as a < b, a = b or a > b
BigCmp(a, b) ==
    IF Len(a) < Len(b) THEN -1
    ELSE IF Len(a) > Len(b) THEN 1
    ELSE BigCmpFrom(a, b, Len(a))

\* a * k + c for a limb k, c being the carry
RECURSIVE BigMulCarry(_, _, _)
BigMulCarry(a, k, c) ==
    IF a = <<>> THEN (IF c = 0 THEN <<>> ELSE <<c>>)
    ELSE LET p == a[1] * k + c
         IN <<p % 32768>> \o BigMulCarry(Tail(a), k, p \div 32768)

BigMulSmall(a, k) == IF k = 0 THEN <<>> ELSE BigMulCarry(a, k, 0)

\* a * b, limb by limb of b
RECURSIVE BigMulLimbs(_, _)
BigMulLimbs(a, b) ==
    IF b = <<>> THEN <<>>
    ELSE BigAdd(BigMulSmall(a, b[1]), <<0>> \o BigMulLimbs(a, Tail(b)))

BigMul(a, b) == BigNorm(BigMulLimbs(a, b))

\* quotient and remainder of a by k, 0 < k <= 32768, from the highest limb
\* down; the quotient keeps its leading zero limbs
RECURSIVE BigDivLimbs(_, _)
BigDivLimbs(a, k) ==
    IF a = <<>> THEN [q |-> <<>>, r |-> 0]
    ELSE LET high == BigDivLimbs(Tail(a), k)
             cur == high.r * 32768 + a[1]
         IN [q |-> <<cur \div k>> \o high.q, r |-> cur % k]

BigDivSmall(a, k) ==
    LET d == BigDivLimbs(a, k) IN [q |-> BigNorm(d.q), r |-> d.r]

\* 2^s for s below the width of a limb
Pow2(s) ==
    <<1, 2, 4, 8, 16, 32, 64, 128, 256, 512, 1024, 2048, 4096, 8192, 16384>>[s + 1]

\* a * 2^s
BigShl(a, s) ==
    IF a = <<>> \/ s = 0 THEN a
    ELSE [k \in 1..(s \div 15) |-> 0] \o BigMulSmall(a, Pow2(s % 15))

\* a \div 2^s
BigShr(a, s) ==
    IF Len(a) <= s \div 15 THEN <<>>
    ELSE BigDivSmall(SubSeq(a, s \div 15 + 1, Len(a)), Pow2(s % 15)).q

\* the number of bits of a limb
RECURSIVE LimbBits(_)
LimbBits(n) == IF n = 0 THEN 0 ELSE 1 + LimbBits(n \div 2)

\* the number of bits of a
BitLen(a) == IF a = <<>> THEN 0 ELSE 15 * (Len(a) - 1) + LimbBits(a[Len(a)])

\* bit s of a, the lowest bit being bit 0
BitAt(a, s) ==
    IF s \div 15 >= Len(a) THEN 0 ELSE (a[s \div 15 + 1] \div Pow2(s % 15)) % 2

\* whether a bit of a below bit s is set
LowBitsSet(a, s) ==
    \/ \E k \in 1..(s \div 15) : k <= Len(a) /\ a[k] # 0
    \/ s \div 15 < Len(a) /\ a[s \div 15 + 1] % Pow2(s % 15) # 0

\* the number of zero bits a limb above 0 ends with
RECURSIVE TrailingZeros(_)
TrailingZeros(n) == IF n % 2 = 1 THEN 0 ELSE 1 + TrailingZeros(n \div 2)

\* the double of value m * 2^e, for m of at most 53 bits: m is made odd
RECURSIVE Canonical(_, _, _)
Canonical(neg, m, e) ==
    IF m = <<>> THEN [neg |-> FALSE, m |-> <<>>, e |-> 0]
    ELSE IF m[1] = 0 THEN Canonical(neg, Tail(m), e + 15)
    ELSE IF m[1] % 2 = 1 THEN [neg |-> neg, m |-> m, e |-> e]
    ELSE [neg |-> neg, m |-> BigShr(m, TrailingZeros(m[1])),
          e |-> e + TrailingZeros(m[1])]

\* the double nearest to n * 2^e, or to a value just above it when sticky
\* (a remainder was dropped from n, which then has more than 53 bits):
\* n is cut to 53 bits and rounded on the bits cut off, up when they are
\* above half of the last bit kept, and to even when they are half of it.
\* RoundedUp: whether n, cut by shift bits to q, is rounded up
RoundedUp(n, shift, q, sticky) ==
    /\ BitAt(n, shift - 1) = 1
    /\ sticky \/ LowBitsSet(n, shift - 1) \/ q[1] % 2 = 1

\* n * 2^e cut by shift bits to q and rounded
RoundedBy(neg, n, e, sticky, shift, q) ==
    Canonical(neg, IF RoundedUp(n, shift, q, sticky) THEN BigAdd(q, <<1>>) ELSE q,
              e + shift)

\* n * 2^e rounded, n having shift bits more than 53
RoundedFrom(neg, n, e, sticky, shift) ==
    IF shift <= 0 THEN Canonical(neg, n, e)
    ELSE RoundedBy(neg, n, e, sticky, shift, BigShr(n, shift))

RoundToDouble(neg, n, e, sticky) == RoundedFrom(neg, n, e, sticky, BitLen(n) - 53)

\* float(n) of an integer n
DoubleOfInt(n) == Canonical(n < 0, BigOfInt(IF n < 0 THEN -n ELSE n), 0)

\* num / den of two integers, 0 < den <= 32768, correctly rounded: the true
\* division of Python, and the double a decimal literal denotes (0.15 is
\* DoubleOfRatio(15, 100))
RoundedQuotient(neg, d) == RoundToDouble(neg, d.q, -75, d.r # 0)

DoubleOfRatio(num, den) ==
    RoundedQuotient(num < 0,
                    BigDivSmall(BigShl(BigOfInt(IF num < 0 THEN -num ELSE num), 75), den))

\* -a
DoubleNeg(a) == IF a.m = <<>> THEN a ELSE [a EXCEPT !.neg = ~a.neg]

\* a * b
DoubleMul(a, b) == RoundToDouble(a.neg # b.neg, BigMul(a.m, b.m), a.e + b.e, FALSE)

\* the lower of the exponents of a and b
LowerExponent(a, b) == IF a.e < b.e THEN a.e ELSE b.e

\* the magnitude of a in units of 2^e, e being at most the exponent of a
Magnitude(a, e) == BigShl(a.m, a.e - e)

\* x * 2^e, negated when xneg, plus y * 2^e, negated when yneg; c is -1, 0
\* or 1 as x < y, x = y or x > y
SignedSum(xneg, x, yneg, y, e, c) ==
    RoundToDouble(IF xneg = yneg \/ c >= 0 THEN xneg ELSE yneg,
                  IF xneg = yneg THEN BigAdd(x, y)
                  ELSE IF c >= 0 THEN BigSub(x, y) ELSE BigSub(y, x),
                  e, FALSE)

\* the sum of a and b brought to the exponent e
AlignedSum(a, x, b, y, e) == SignedSum(a.neg, x, b.neg, y, e, BigCmp(x, y))

\* a + b: both are brought to the lower exponent and added exactly
DoubleAdd(a, b) ==
    AlignedSum(a, Magnitude(a, LowerExponent(a, b)), b, Magnitude(b, LowerExponent(a, b)),
               LowerExponent(a, b))

\* a - b
DoubleSub(a, b) == DoubleAdd(a, DoubleNeg(b))

\* a < b: by the signs, and by the magnitudes brought to the lower exponent
DoubleLess(a, b) ==
    IF a.neg # b.neg THEN a.neg
    ELSE IF a.neg
    THEN BigCmp(Magnitude(a, LowerExponent(a, b)), Magnitude(b, LowerExponent(a, b))) > 0
    ELSE BigCmp(Magnitude(a, LowerExponent(a, b)), Magnitude(b, LowerExponent(a, b))) < 0

\* int(a): the integer part, towards zero
DoubleTrunc(a) ==
    LET n == BigToInt(IF a.e >= 0 THEN BigShl(a.m, a.e) ELSE BigShr(a.m, -a.e))
    IN IF a.neg THEN -n ELSE n

\* the decimal digits of a natural number
RECURSIVE DecimalText(_)
DecimalText(n) ==
    LET digit == <<"0", "1", "2", "3", "4", "5", "6", "7", "8", "9">>
    IN IF n < 10 THEN digit[n + 1] ELSE DecimalText(n \div 10) \o digit[(n % 10) + 1]

\* the hundredths nearest to |a|, ties to even: what the format
\* specification .2f prints of the value of the double
RoundedHundredths(a) ==
    LET n == BigMulSmall(a.m, 100)
        q == IF a.e >= 0 THEN BigShl(n, a.e) ELSE BigShr(n, -a.e)
        c == IF a.e >= 0 THEN -1
             ELSE BigCmp(BigSub(n, BigShl(q, -a.e)), BigShl(<<1>>, -a.e - 1))
        up == c > 0 \/ (c = 0 /\ q # <<>> /\ q[1] % 2 = 1)
    IN BigToInt(q) + (IF up THEN 1 ELSE 0)

\* f"{a:.2f}"
format_2f(a) ==
    LET h == RoundedHundredths(a)
    IN (IF a.neg THEN "-" ELSE "") \o DecimalText(h \div 100) \o "."
       \o DecimalText((h % 100) \div 10) \o DecimalText(h % 10)

\* the double a literal of two decimals denotes: 0.75 is Hundredths(75)
Hundredths(h) == DoubleOfRatio(h, 100)

\* the double a literal of three decimals denotes: 0.952 is
\* Thousandths(952)
Thousandths(x) == DoubleOfRatio(x, 1000)

\* ---------------------------------------------------- DemandForecastingVAA
\* confidence_score, accuracy_metric and historical_error_rate are doubles;
\* quantities are the code's integers, and the float expressions they come
\* from are computed in doubles and truncated by int().
AUTONOMOUS == "autonomous"
SEMI_AUTONOMOUS == "semi_autonomous"
HUMAN_REVIEW == "human_review"
ESCALATION == "escalation"

DecisionLevel == {AUTONOMOUS, SEMI_AUTONOMOUS, HUMAN_REVIEW, ESCALATION}

\* the ForecastData records recommendations are generated from
Forecasts ==
    { [product_id |-> "PROD_001", location_id |-> "warehouse_us_central",
       forecast_qty |-> q[1], upper_bound |-> q[2],
       accuracy_metric |-> Hundredths(a[1]),
       historical_error_rate |-> Hundredths(a[2]), horizon_days |-> 30] :
        q \in {<<900, 1035>>},
        a \in {<<60, 40>>, <<70, 30>>, <<90, 10>>, <<90, 30>>} }

\* the current_inventory arguments
Inventories == {0, 600, 3000}

\* the planners a caller passes as approved_by_planner
Planners == {"p7"}

\* _requires_human_approval
requires_human_approval(action_type, qty, confidence, forecast) ==
    IF DoubleLess(confidence, Hundredths(75)) THEN TRUE
    ELSE IF (IF qty < 0 THEN -qty ELSE qty) > 1000 THEN TRUE
    ELSE IF DoubleLess(Hundredths(25), forecast.historical_error_rate) THEN TRUE
    ELSE FALSE

\* _determine_decision_level that escalates below the approval cutoff 0.75 in
\* place of 0.65
determine_decision_level_escalates_below_075(self_autonomy_level, confidence, action_type, requires_approval) ==
    IF requires_approval
    THEN (IF DoubleLess(confidence, Hundredths(75)) THEN ESCALATION ELSE HUMAN_REVIEW)
    ELSE IF self_autonomy_level = AUTONOMOUS /\ DoubleLess(Hundredths(85), confidence)
    THEN AUTONOMOUS
    ELSE SEMI_AUTONOMOUS

\* _determine_decision_level
determine_decision_level(self_autonomy_level, confidence, action_type, requires_approval) ==
    IF requires_approval
    THEN (IF DoubleLess(confidence, Hundredths(65)) THEN ESCALATION ELSE HUMAN_REVIEW)
    ELSE IF self_autonomy_level = AUTONOMOUS /\ DoubleLess(Hundredths(85), confidence)
    THEN AUTONOMOUS
    ELSE SEMI_AUTONOMOUS

\* generate_inventory_recommendation, lines 137-138: reorder_point, of which
\* safety_stock is the float product daily_demand * lead_time_days *
\* safety_stock_factor cut by int()
reorder_point(lead_time_demand, safety_stock_factor) ==
    DoubleAdd(lead_time_demand,
              DoubleOfInt(DoubleTrunc(DoubleMul(lead_time_demand, safety_stock_factor))))

\* generate_inventory_recommendation, lines 148-174: the InventoryAction
\* built from action_type and recommended_qty
inventory_action(self_level, forecast, action_type, recommended_qty) ==
    LET confidence_score == forecast.accuracy_metric
        requires_approval ==
            requires_human_approval(action_type, recommended_qty, confidence_score, forecast)
    IN [location_id |-> forecast.location_id,
        product_id |-> forecast.product_id,
        recommended_qty |-> recommended_qty,
        action_type |-> action_type,
        confidence_score |-> confidence_score,
        decision_level |->
            determine_decision_level(self_level, confidence_score, action_type,
                                     requires_approval),
        requires_approval |-> requires_approval]

\* generate_inventory_recommendation, lines 141-174: the if / elif / else
\* on current_inventory < reorder_point, and the InventoryAction returned
inventory_recommendation(self_level, forecast, current_inventory, below_reorder_point) ==
    inventory_action(
        self_level, forecast,
        IF below_reorder_point THEN "reorder"
        ELSE IF current_inventory > forecast.upper_bound * 2 THEN "reduce"
        ELSE "maintain",
        IF below_reorder_point
        THEN DoubleTrunc(DoubleMul(DoubleOfInt(forecast.forecast_qty), Hundredths(150)))
        ELSE IF current_inventory > forecast.upper_bound * 2
        THEN -DoubleTrunc(DoubleMul(DoubleOfInt(current_inventory), Hundredths(30)))
        ELSE 0)

\* generate_inventory_recommendation: the InventoryAction returned.
\* daily_demand is forecast_qty / horizon_days and lead_time_demand is
\* daily_demand * lead_time_days; safety_stock_factor is a double, and
\* horizon_days is above 0
generate_inventory_recommendation(self_level, forecast, current_inventory, lead_time_days, safety_stock_factor) ==
    inventory_recommendation(
        self_level, forecast, current_inventory,
        DoubleLess(DoubleOfInt(current_inventory),
                   reorder_point(DoubleMul(DoubleOfRatio(forecast.forecast_qty,
                                                         forecast.horizon_days),
                                           DoubleOfInt(lead_time_days)),
                                 safety_stock_factor)))

\* blocks_execution that looks at the decision level in place of the flag
blocks_execution_by_level(act, planner) ==
    act.decision_level = ESCALATION /\ planner = None

\* execute_inventory_action: the guard of the escalation protocol
blocks_execution(act, planner) ==
    act.requires_approval /\ planner = None

\* execute_inventory_action: the dictionary returned for a blocked action
escalated_result(act) ==
    [status |-> "escalated",
     action_id |-> act.product_id \o "_" \o act.location_id,
     message |-> "Action requires human planner approval before execution",
     decision_level |-> act.decision_level]

\* execute_inventory_action: execution_result
inventory_execution_result(act, planner) ==
    [status |-> IF act.decision_level # ESCALATION THEN "executed" ELSE "pending_approval",
     action_id |-> act.product_id \o "_" \o act.location_id,
     product_id |-> act.product_id,
     location_id |-> act.location_id,
     recommended_qty |-> act.recommended_qty,
     action_type |-> act.action_type,
     executed_by |-> IF planner = None THEN "vaa_autonomous" ELSE "planner_" \o planner.id,
     audit_trail |->
        [confidence_score |-> act.confidence_score,
         autonomy_level |-> act.decision_level]]

\* ------------------------------------------------------------------ MarketingVAA
\* MarketingVAA._initialize_fairness_constraints
initialize_fairness_constraints ==
    [prohibited_targeting_attributes |->
        <<"race", "ethnicity", "religion", "sexual_orientation",
          "political_affiliation", "health_conditions">>,
     fairness_thresholds |->
        [max_conversion_rate_variance_between_segments |-> 15,
         min_transparency_score |-> 75,
         min_fairness_score |-> 70],
     data_minimization |-> TRUE,
     consent_verification_required |-> TRUE,
     privacy_compliance_audits |-> "quarterly"]

UpperCase == "ABCDEFGHIJKLMNOPQRSTUVWXYZ"
LowerCase == "abcdefghijklmnopqrstuvwxyz"

\* str.lower() of one character
LowerChar(c) ==
    IF \E k \in 1..Len(UpperCase) : SubSeq(UpperCase, k, k) = c
    THEN LET k == CHOOSE j \in 1..Len(UpperCase) : SubSeq(UpperCase, j, j) = c
         IN SubSeq(LowerCase, k, k)
    ELSE c

\* str.lower()
RECURSIVE Lower(_)
Lower(text) ==
    IF Len(text) = 0 THEN ""
    ELSE LowerChar(SubSeq(text, 1, 1)) \o Lower(SubSeq(text, 2, Len(text)))

\* the targeting rules and attribute names of the model
Texts ==
    {"race", "ethnicity", "religion", "sexual_orientation", "political_affiliation",
     "health_conditions", "sessions_past_30_days > 5", "avg_session_duration > 10_minutes",
     "content_interactions > 15", "lifetime_transactions > 10", "avg_order_value > 150_usd",
     "churn_risk_score < 0.3", "days_since_last_purchase > 60",
     "engagement_decline_90_days > 40%", "churn_risk_score > 0.60",
     "Religion_segment = 1", "visits > 2", "traceability_score > 3"}

\* Lower on the texts of the model, computed once
LowerOfTexts == [text \in Texts |-> Lower(text)]

\* str.lower(), looked up where it was computed
lower(text) == IF text \in Texts THEN LowerOfTexts[text] ELSE Lower(text)

\* part in text, for two strings
Contains(text, part) ==
    \E k \in 1..(Len(text) - Len(part) + 1) : SubSeq(text, k, k + Len(part) - 1) = part

\* _validate_segment_fairness: the attributes the inner loop appends for one rule
found_in_rule(rule, prohibited_attrs) ==
    SelectSeq(prohibited_attrs, LAMBDA attr : Contains(lower(rule), lower(attr)))

\* _validate_segment_fairness: prohibited_found after the loop over the rules
RECURSIVE prohibited_found(_, _)
prohibited_found(targeting_rules, prohibited_attrs) ==
    IF Len(targeting_rules) = 0 THEN <<>>
    ELSE found_in_rule(Head(targeting_rules), prohibited_attrs)
             \o prohibited_found(Tail(targeting_rules), prohibited_attrs)

\* _validate_segment_fairness: is_compliant
is_compliant(found, fairness_score, constraints) ==
    Len(found) = 0 /\ fairness_score > constraints.fairness_thresholds.min_fairness_score

\* _validate_segment_fairness: the dictionary returned
validate_segment_fairness(segment, self_constraints) ==
    LET found == prohibited_found(segment.targeting_rules,
                                  self_constraints.prohibited_targeting_attributes)
    IN [is_compliant |-> is_compliant(found, segment.fairness_score, self_constraints),
        prohibited_attributes_found |-> found,
        fairness_score |-> segment.fairness_score]

\* _log_fairness_concern: concern
fairness_concern(concern_id, segment, check_result) ==
    [concern_id |-> concern_id,
     segment_id |-> segment.segment_id,
     concern_type |-> "fairness_validation_issue",
     prohibited_attributes |-> check_result.prohibited_attributes_found,
     fairness_score |-> segment.fairness_score,
     action_required |-> "human_review"]

\* a CustomerSegment; the characteristics dictionary, which no operation
\* reads, is left out
CustomerSegment(id, name, type, count, rules, score) ==
    [segment_id |-> id, segment_name |-> name, segment_type |-> type,
     customer_count |-> count, targeting_rules |-> rules,
     privacy_compliance_check |-> TRUE, fairness_score |-> score]

\* segment_customers: the three segments built from customer_data, by key
built_segments(customer_data_len) ==
    [behavioral_high_engagement |->
        CustomerSegment("seg_behavioral_high_engagement", "High Engagement Users",
            "behavioral", (customer_data_len * 25) \div 100,
            <<"sessions_past_30_days > 5", "avg_session_duration > 10_minutes",
              "content_interactions > 15">>, 89),
     value_high_lifetime |->
        CustomerSegment("seg_value_high_lifetime", "High Customer Lifetime Value",
            "value", (customer_data_len * 15) \div 100,
            <<"lifetime_transactions > 10", "avg_order_value > 150_usd",
              "churn_risk_score < 0.3">>, 92),
     lifecycle_at_risk |->
        CustomerSegment("seg_lifecycle_at_risk", "At-Risk / Churn Candidates",
            "lifecycle", (customer_data_len * 10) \div 100,
            <<"days_since_last_purchase > 60", "engagement_decline_90_days > 40%",
              "churn_risk_score > 0.60">>, 85)]

\* the order in which segment_customers inserts the keys, and so validates
segment_keys == <<"behavioral_high_engagement", "value_high_lifetime", "lifecycle_at_risk">>

\* segment_customers: the concerns the validation loop logs, in order, the
\* first of them with the id first_id
RECURSIVE logged_concerns(_, _, _, _)
logged_concerns(keys, segs, self_constraints, first_id) ==
    IF Len(keys) = 0 THEN <<>>
    ELSE LET segment == segs[Head(keys)]
             check == validate_segment_fairness(segment, self_constraints)
         IN IF ~check.is_compliant
            THEN <<fairness_concern(first_id, segment, check)>>
                     \o logged_concerns(Tail(keys), segs, self_constraints, first_id + 1)
            ELSE logged_concerns(Tail(keys), segs, self_constraints, first_id)

\* dict.update(other)
Update(dict, other) ==
    [k \in DOMAIN dict \cup DOMAIN other |-> IF k \in DOMAIN other THEN other[k] ELSE dict[k]]

\* allocate_campaign_budget: the BudgetAllocation returned; the channel and
\* segment amounts, float products that nothing reads, are left out, and
\* expected_roi is in tenths
budget_allocation(allocation_id, campaign_id, total_budget) ==
    LET segment_rois == <<35, 42, 28>>
    IN [allocation_id |-> allocation_id,
        campaign_id |-> campaign_id,
        total_budget |-> total_budget,
        optimization_method |-> "roi_predictive_allocation",
        expected_roi |-> Sum(segment_rois) \div Len(segment_rois)]

\* the expected rates e, up to 1.0 in ten-thousandths, at which the doubles of
\* the code give (0.9 e - e) / e * 100 < -10: the quotient is rounded, and at
\* exactly ten percent under the expected rate the result falls on either
\* side of -10
BelowAtTenPercentUnder ==
    { 10, 20, 40, 50, 80, 100, 160, 170, 200, 210, 250, 270, 320, 330,
      340, 350, 390, 400, 420, 470, 490, 500, 540, 570, 610, 640, 660,
      670, 680, 690, 700, 730, 780, 790, 800, 830, 840, 850, 930, 940,
      980, 990, 1000, 1010, 1070, 1080, 1130, 1140, 1150, 1220, 1270,
      1280, 1290, 1320, 1330, 1340, 1350, 1360, 1370, 1380, 1390, 1400,
      1460, 1510, 1530, 1560, 1580, 1600, 1610, 1630, 1650, 1660, 1670,
      1680, 1700, 1710, 1810, 1860, 1880, 1910, 1930, 1950, 1960, 1980,
      2000, 2010, 2020, 2030, 2090, 2140, 2160, 2190, 2210, 2230, 2260,
      2280, 2300, 2310, 2330, 2440, 2490, 2510, 2540, 2560, 2580, 2590,
      2610, 2630, 2640, 2650, 2660, 2680, 2690, 2700, 2710, 2720, 2730,
      2740, 2750, 2760, 2770, 2780, 2790, 2800, 2810, 2870, 2920, 2970,
      3010, 3020, 3060, 3070, 3110, 3120, 3150, 3160, 3170, 3200, 3210,
      3220, 3250, 3260, 3270, 3290, 3300, 3310, 3320, 3340, 3350, 3360,
      3370, 3390, 3400, 3410, 3420, 3430, 3570, 3620, 3670, 3710, 3720,
      3760, 3770, 3810, 3820, 3850, 3860, 3870, 3900, 3910, 3920, 3950,
      3960, 3970, 3990, 4000, 4010, 4020, 4040, 4050, 4060, 4130, 4180,
      4230, 4270, 4280, 4320, 4330, 4370, 4380, 4410, 4420, 4430, 4460,
      4470, 4510, 4520, 4550, 4560, 4570, 4600, 4610, 4620, 4650, 4660,
      4670, 4830, 4880, 4930, 4970, 4980, 5020, 5030, 5070, 5080, 5110,
      5120, 5130, 5160, 5170, 5180, 5210, 5220, 5230, 5250, 5260, 5270,
      5280, 5300, 5310, 5320, 5330, 5350, 5360, 5370, 5380, 5390, 5400,
      5410, 5420, 5430, 5440, 5450, 5460, 5470, 5480, 5490, 5500, 5510,
      5520, 5530, 5540, 5550, 5560, 5570, 5580, 5590, 5600, 5610, 5620,
      5740, 5840, 5930, 5940, 6020, 6030, 6040, 6120, 6130, 6140, 6210,
      6220, 6230, 6240, 6300, 6310, 6320, 6330, 6340, 6390, 6400, 6410,
      6420, 6430, 6440, 6490, 6500, 6510, 6520, 6530, 6540, 6580, 6590,
      6600, 6610, 6620, 6630, 6640, 6670, 6680, 6690, 6700, 6710, 6720,
      6730, 6740, 6770, 6780, 6790, 6800, 6810, 6820, 6830, 6840, 6860,
      6870, 6950, 7050, 7140, 7150, 7230, 7240, 7250, 7330, 7340, 7350,
      7420, 7430, 7440, 7450, 7510, 7520, 7530, 7540, 7550, 7610, 7620,
      7630, 7640, 7650, 7700, 7710, 7720, 7730, 7740, 7750, 7790, 7800,
      7810, 7820, 7830, 7840, 7850, 7890, 7900, 7910, 7920, 7930, 7940,
      7950, 7980, 7990, 8000, 8010, 8020, 8030, 8040, 8050, 8070, 8080,
      8090, 8100, 8110, 8120, 8260, 8350, 8360, 8450, 8460, 8540, 8550,
      8560, 8630, 8640, 8650, 8660, 8730, 8740, 8750, 8760, 8820, 8830,
      8840, 8850, 8860, 8910, 8920, 8930, 8940, 8950, 9010, 9020, 9030,
      9040, 9050, 9100, 9110, 9120, 9130, 9140, 9150, 9190, 9200, 9210,
      9220, 9230, 9240, 9250, 9290, 9300, 9310, 9320, 9330, 9340, 9350,
      9660, 9750, 9760, 9850, 9860, 9940, 9950, 9960 }

\* the expected rates e, up to 1.0 in ten-thousandths, at which the doubles of
\* the code give (1.1 e - e) / e * 100 > 10
AboveAtTenPercentOver ==
    { 10, 20, 40, 80, 90, 110, 130, 150, 160, 180, 220, 260, 270, 300,
      320, 360, 370, 390, 430, 440, 450, 470, 490, 510, 520, 540, 570,
      590, 600, 610, 640, 710, 720, 730, 740, 750, 780, 790, 830, 860,
      880, 890, 900, 930, 940, 980, 1020, 1030, 1040, 1050, 1070, 1080,
      1090, 1140, 1180, 1200, 1220, 1230, 1250, 1280, 1330, 1410, 1420,
      1430, 1440, 1450, 1460, 1470, 1480, 1500, 1510, 1530, 1550, 1560,
      1580, 1610, 1660, 1720, 1730, 1750, 1760, 1770, 1780, 1800, 1810,
      1830, 1860, 1880, 1910, 1960, 2040, 2050, 2060, 2070, 2080, 2090,
      2100, 2110, 2130, 2140, 2160, 2180, 2190, 2210, 2280, 2350, 2360,
      2390, 2400, 2410, 2440, 2450, 2460, 2500, 2510, 2550, 2560, 2610,
      2660, 2820, 2830, 2840, 2850, 2860, 2870, 2880, 2890, 2900, 2910,
      2920, 2940, 2950, 2960, 2970, 2990, 3000, 3010, 3020, 3050, 3060,
      3070, 3100, 3110, 3120, 3160, 3170, 3210, 3220, 3270, 3320, 3440,
      3450, 3460, 3470, 3490, 3500, 3510, 3520, 3540, 3550, 3560, 3570,
      3600, 3610, 3620, 3650, 3660, 3670, 3710, 3720, 3760, 3770, 3820,
      3870, 3920, 4070, 4080, 4090, 4100, 4110, 4120, 4130, 4140, 4150,
      4160, 4170, 4180, 4200, 4210, 4220, 4230, 4250, 4260, 4270, 4280,
      4310, 4320, 4330, 4360, 4370, 4380, 4420, 4430, 4470, 4560, 4570,
      4670, 4690, 4700, 4710, 4720, 4730, 4770, 4780, 4790, 4800, 4810,
      4820, 4830, 4880, 4890, 4900, 4910, 4920, 4930, 4990, 5000, 5010,
      5020, 5030, 5100, 5110, 5120, 5130, 5210, 5220, 5230, 5320, 5330,
      5430, 5630, 5640, 5650, 5660, 5670, 5680, 5690, 5700, 5710, 5720,
      5730, 5740, 5760, 5770, 5780, 5790, 5800, 5810, 5820, 5830, 5840,
      5870, 5880, 5890, 5900, 5910, 5920, 5930, 5940, 5980, 5990, 6000,
      6010, 6020, 6030, 6040, 6090, 6100, 6110, 6120, 6130, 6140, 6200,
      6210, 6220, 6230, 6240, 6310, 6320, 6330, 6340, 6420, 6430, 6440,
      6530, 6540, 6640, 6880, 6890, 6900, 6910, 6920, 6930, 6940, 6950,
      6970, 6980, 6990, 7000, 7010, 7020, 7030, 7040, 7050, 7080, 7090,
      7100, 7110, 7120, 7130, 7140, 7150, 7190, 7200, 7210, 7220, 7230,
      7240, 7250, 7300, 7310, 7320, 7330, 7340, 7350, 7410, 7420, 7430,
      7440, 7450, 7520, 7530, 7540, 7550, 7630, 7640, 7650, 7740, 7750,
      7840, 7850, 7950, 8130, 8140, 8150, 8160, 8170, 8180, 8190, 8200,
      8210, 8220, 8230, 8240, 8250, 8260, 8280, 8290, 8300, 8310, 8320,
      8330, 8340, 8350, 8360, 8390, 8400, 8410, 8420, 8430, 8440, 8450,
      8460, 8500, 8510, 8520, 8530, 8540, 8550, 8560, 8610, 8620, 8630,
      8640, 8650, 8660, 8720, 8730, 8740, 8750, 8760, 8830, 8840, 8850,
      8860, 8940, 8950, 9050, 9120, 9140, 9230, 9250, 9340, 9380, 9400,
      9420, 9430, 9440, 9450, 9460, 9470, 9490, 9510, 9530, 9540, 9550,
      9560, 9580, 9600, 9620, 9640, 9650, 9660, 9670, 9690, 9710, 9730,
      9750, 9760, 9780, 9800, 9820, 9840, 9860, 9870, 9890, 9910, 9930,
      9950, 9980, 10000 }

\* generate_performance_insights: the PerformanceInsight returned; the
\* recommendation is named by its case, its text holds the formatted variance.
\* variance_percent is compared as the code computes it: away from ten
\* percent the doubles order as the exact quotients do, and at exactly ten
\* percent under or over the expected rate the rounded quotient decides
performance_insight(insight_id, campaign_id, segment_id, actual_metrics) ==
    LET current_value == Get(actual_metrics, "conversion_rate", 350)
        expected_value == Get(actual_metrics, "expected_conversion_rate", 400)
        scaled == (current_value - expected_value) * 100
        below == /\ expected_value > 0
                 /\ \/ scaled < -10 * expected_value
                    \/ scaled = -10 * expected_value /\ expected_value \in BelowAtTenPercentUnder
        above == /\ expected_value > 0
                 /\ \/ scaled > 10 * expected_value
                    \/ scaled = 10 * expected_value /\ expected_value \in AboveAtTenPercentOver
    IN [insight_id |-> insight_id,
        campaign_id |-> campaign_id,
        segment_id |-> segment_id,
        metric_name |-> "conversion_rate",
        current_value |-> current_value,
        expected_value |-> expected_value,
        recommendation |-> IF below THEN "below_target"
                           ELSE IF above THEN "above_target" ELSE "on_track",
        confidence_score |-> IF below THEN 78 ELSE IF above THEN 85 ELSE 72]

\* calculate_fairness_metrics: fairness_assessment
fairness_assessment(assessment_id) ==
    LET max_rate == 480
        min_rate == 290
    IN [assessment_id |-> assessment_id,
        metric_name |-> "conversion_rate_disparity",
        max_rate |-> max_rate,
        min_rate |-> min_rate,
        disparity_ratio |-> [num |-> max_rate, den |-> min_rate],
        fairness_status |-> IF max_rate * 100 < 125 * min_rate
                            THEN "within_threshold" ELSE "requires_review",
        regulatory_compliance |-> "compliant",
        recommendations |-> IF max_rate * 100 > 115 * min_rate
                            THEN <<"review_personalization_logic">> ELSE <<>>]

\* _log_fairness_audit: audit_entry
fairness_audit_entry(audit_id, assessment) ==
    [audit_id |-> audit_id,
     assessment_data |-> assessment,
     retention_policy |-> "retain_for_2_years_for_regulatory"]

\* the segments a caller hands to the fairness validation: the scores around
\* min_fairness_score with clean rules, and two rule sets that hold the name
\* of a prohibited attribute (one in capitals, one inside another word)
CheckedSegments ==
    { CustomerSegment("seg_custom", "Custom", "value", 100, r[1], r[2]) :
        r \in { <<<<"lifetime_transactions > 10">>, 69>>,
                <<<<"lifetime_transactions > 10">>, 70>>,
                <<<<"lifetime_transactions > 10">>, 71>>,
                <<<<"Religion_segment = 1", "visits > 2">>, 89>>,
                <<<<"traceability_score > 3">>, 89>> } }

\* the lengths of customer_data
CustomerCounts == {0, 1000}

\* the campaigns a budget is allocated to
Campaigns == {"CAMP_001"}

\* the actual_metrics of generate_performance_insights: 25% below the
\* expected rate, 5% below it, 15% above it, and none given
ActualMetrics ==
    {NoMetadata} \cup
    { [conversion_rate |-> c, expected_conversion_rate |-> 400] :
          c \in {300, 360, 380, 440, 460} }

\* ------------------------------------------------------------------ monitoring
\* monitor_workflow_exceptions: the estimated hours in the sum of
\* processing_times, in quarter hours
RECURSIVE processing_quarters(_)
processing_quarters(log) ==
    IF log = <<>> THEN 0
    ELSE log[1].expected_completion.quarters + processing_quarters(Tail(log))

\* monitor_workflow_exceptions: the microseconds between the clock readings
\* in the sum of processing_times
RECURSIVE processing_microseconds(_)
processing_microseconds(log) ==
    IF log = <<>> THEN 0
    ELSE log[1].expected_completion.microseconds + processing_microseconds(Tail(log))

\* monitor_workflow_exceptions: avg_processing_time > 4.0.  Each processing
\* time is (end - start).total_seconds() / 3600, the estimated hours and
\* the microseconds between the two readings of the clock.  Sums of quarter
\* hours are exact in doubles, and a microsecond is 2.8e-10 hours, far above
\* the rounding of the sum and the quotient and far below a quarter hour: the
\* average is above 4.0 when the estimated hours average above 4.0, or
\* average exactly 4.0 and some entry's readings differ.  An average of
\* exactly 4.0 hours whose readings all coincide is not above 4.0
long_processing_time(self_process_log) ==
    /\ self_process_log # <<>>
    /\ \/ processing_quarters(self_process_log) > 16 * Len(self_process_log)
       \/ /\ processing_quarters(self_process_log) = 16 * Len(self_process_log)
          /\ processing_microseconds(self_process_log) > 0

\* monitor_workflow_exceptions: exceptions_report; anomalies and
\* recommendations are named by their case, their texts hold the formatted
\* rates
monitor_workflow_exceptions(self_process_log, self_escalation_queue) ==
    LET total_tasks == Len(self_process_log)
        escalated_tasks == Len(self_escalation_queue)
        denominator == IF total_tasks > 1 THEN total_tasks ELSE 1
    IN [reporting_period |-> "current_cycle",
        total_tasks_processed |-> total_tasks,
        escalated_tasks |-> escalated_tasks,
        escalation_rate |-> [num |-> escalated_tasks, den |-> denominator],
        anomalies_detected |->
            (IF escalated_tasks * 100 > 15 * denominator
             THEN <<"high_escalation_rate">> ELSE <<>>)
            \o (IF long_processing_time(self_process_log)
                THEN <<"long_processing_time">> ELSE <<>>),
        optimization_recommendations |->
            IF escalated_tasks * 100 < 10 * denominator
            THEN <<"increase_autonomy_threshold">> ELSE <<>>]

\* ------------------------------------------------------------------ SupplyChainVAAOrchestrator
\* the locations VAAs are registered for
Locations == {"warehouse_us_central", "warehouse_eu_west"}

\* register_vaa: the vaa_id given to the new VAA
vaa_id_of(location_id) == "SC_VAA_" \o location_id

\* DemandForecastingVAA.__init__, as register_vaa calls it
new_vaa(location_id, level) ==
    [vaa_id |-> vaa_id_of(location_id),
     autonomy_level |-> level,
     decision_log |-> <<>>,
     escalation_queue |-> <<>>,
     model_version |-> "1.0"]

\* register_vaa: the key of self.vaas the new VAA is filed under
vaas_key(location_id) == location_id

\* audit_governance_compliance: the dictionary returned;
\* days_since_training is (datetime.now() - vaa.last_training_date).days,
\* the whole days on the clock since the VAA was built, and the
\* recommendations are named by their case
audit_governance_compliance(self_vaas, vaa_id, days_since_training) ==
    IF vaa_id \notin DOMAIN self_vaas
    THEN [error |-> "VAA not found"]
    ELSE LET vaa == self_vaas[vaa_id]
             decisions == Len(vaa.decision_log)
             escalations == Len(vaa.escalation_queue)
             denominator == IF decisions > 1 THEN decisions ELSE 1
         IN [vaa_id |-> vaa_id,
             total_decisions |-> decisions,
             escalations_count |-> escalations,
             escalation_rate |-> [num |-> escalations, den |-> denominator],
             model_version |-> vaa.model_version,
             autonomy_level |-> vaa.autonomy_level,
             compliance_status |-> "compliant",
             governance_recommendations |->
                 (IF escalations * 100 > 30 * denominator
                  THEN <<"high_escalation_rate">> ELSE <<>>)
                 \o (IF days_since_training > 90
                     THEN <<"model_approaching_retraining_interval">> ELSE <<>>)]

\* the historical_data of __main__; a product that is not in it is
\* forecast on the defaults
HistoricalData ==
    [p \in {"PROD_001", "PROD_002"} |->
        IF p = "PROD_001"
        THEN [avg_daily_demand |-> 150, volatility_factor |-> 18,
              seasonality_factor |-> 110]
        ELSE [avg_daily_demand |-> 85, volatility_factor |-> 22,
              seasonality_factor |-> 95]]

\* the current_inventory dictionaries of a cycle, as the sequence of their
\* items: none, one and two products, of which none, one or both are
\* below the reorder point (2000 and 800 are the figures of __main__)
CycleInventories ==
    { <<>>,
      <<[product_id |-> "PROD_001", inventory_qty |-> 2000]>>,
      <<[product_id |-> "PROD_003", inventory_qty |-> 2000]>>,
      <<[product_id |-> "PROD_001", inventory_qty |-> 2000],
        [product_id |-> "PROD_002", inventory_qty |-> 800]>>,
      <<[product_id |-> "PROD_001", inventory_qty |-> 3000],
        [product_id |-> "PROD_002", inventory_qty |-> 800]>>,
      <<[product_id |-> "PROD_001", inventory_qty |-> 3000],
        [product_id |-> "PROD_002", inventory_qty |-> 9000]>> }

\* the natural number with the given decimal digits, highest first
RECURSIVE BigOfDigits(_)
BigOfDigits(digits) ==
    IF digits = <<>> THEN <<>>
    ELSE BigAdd(BigMulSmall(BigOfDigits(SubSeq(digits, 1, Len(digits) - 1)), 10),
                BigOfInt(digits[Len(digits)]))

\* the doubles random() returns are the multiples k / 2^53 below 1.  The
\* draws forecasts are made on: 0.0, which gives the error rate 0.05; the
\* first draws after random.seed(0) and random.seed(1), 0.8444218515250481
\* and 0.13436424411240122, which give 0.17666327772875723 and
\* 0.0701546366168602; and 0.6666666666666665, which gives 0.15 and the
\* accuracy 0.85 of the autonomy test
RandomDraws ==
    { Canonical(FALSE, BigOfDigits(k), -53) :
        k \in { <<0>>,
                <<7, 6, 0, 5, 8, 7, 5, 8, 7, 1, 7, 4, 3, 4, 2, 2>>,
                <<1, 2, 1, 0, 2, 4, 5, 5, 1, 9, 4, 3, 3, 0, 5, 7>>,
                <<6, 0, 0, 4, 7, 9, 9, 5, 0, 3, 1, 6, 0, 6, 6, 0>> } }

\* random.uniform(a, b): a + (b - a) * self.random(), draw being the double
\* random() returns
uniform(a, b, draw) == DoubleAdd(a, DoubleMul(DoubleSub(b, a), draw))

\* forecast_demand, lines 102-119: the ForecastData built from
\* point_forecast, volatility and historical_error_rate
forecast_data(product_id, location_id, horizon_days, point_forecast, volatility, historical_error_rate) ==
    [product_id |-> product_id,
     location_id |-> location_id,
     forecast_qty |-> point_forecast,
     lower_bound |->
        DoubleTrunc(DoubleMul(DoubleOfInt(point_forecast),
                              DoubleSub(DoubleOfInt(1), volatility))),
     upper_bound |->
        DoubleTrunc(DoubleMul(DoubleOfInt(point_forecast),
                              DoubleAdd(DoubleOfInt(1), volatility))),
     accuracy_metric |-> DoubleSub(DoubleOfInt(1), historical_error_rate),
     historical_error_rate |-> historical_error_rate,
     forecast_method |-> "ensemble_hybrid_model",
     horizon_days |-> horizon_days]

\* forecast_demand: the ForecastData returned.  avg_daily_demand is an
\* integer, volatility_factor and seasonality_factor are literals of two
\* decimals, held in hundredths, and draw is what random() returns inside
\* random.uniform(0.05, 0.20)
forecast_demand(historical, product_id, location_id, horizon_days, draw) ==
    LET base_demand == Get(historical, "avg_daily_demand", 100)
        volatility == Hundredths(Get(historical, "volatility_factor", 15))
        seasonality_factor == Hundredths(Get(historical, "seasonality_factor", 100))
    IN forecast_data(
           product_id, location_id, horizon_days,
           DoubleTrunc(DoubleMul(DoubleMul(DoubleOfInt(base_demand), seasonality_factor),
                                 DoubleOfInt(horizon_days))),
           volatility,
           uniform(Hundredths(5), Hundredths(20), draw))

\* the items of the cycles' current_inventory dictionaries
CycleItems == UNION { {items[k] : k \in DOMAIN items} : items \in CycleInventories }

\* the arguments the cycles call forecast_demand with
ForecastArguments ==
    { <<Get(HistoricalData, item.product_id, EmptyDict), item.product_id, l, 30, draw>> :
        item \in CycleItems, l \in Locations, draw \in RandomDraws }

\* forecast_demand on these arguments, computed once
ComputedForecasts ==
    [a \in ForecastArguments |-> forecast_demand(a[1], a[2], a[3], a[4], a[5])]

\* vaa.forecast_demand(...): what forecast_demand returns, read from
\* ComputedForecasts when the arguments are among ForecastArguments
vaa_forecast_demand(historical, product_id, location_id, horizon_days, draw) ==
    IF <<historical, product_id, location_id, horizon_days, draw>> \in ForecastArguments
    THEN ComputedForecasts[<<historical, product_id, location_id, horizon_days, draw>>]
    ELSE forecast_demand(historical, product_id, location_id, horizon_days, draw)

\* the arguments generate_inventory_recommendation is called with: the
\* forecasts and inventories a caller passes to a VAA, and those of the
\* cycles
RecommendationArguments ==
    { <<level, f, c, 14, Hundredths(20)>> :
        level \in {AUTONOMOUS, SEMI_AUTONOMOUS}, f \in Forecasts, c \in Inventories }
    \cup
    { <<x[1], ComputedForecasts[x[2]], x[3].inventory_qty, 14, Hundredths(20)>> :
        x \in { y \in {AUTONOMOUS, SEMI_AUTONOMOUS} \X ForecastArguments \X CycleItems :
                    y[2][2] = y[3].product_id } }

\* generate_inventory_recommendation on these arguments, computed once
ComputedRecommendations ==
    [a \in RecommendationArguments |->
        generate_inventory_recommendation(a[1], a[2], a[3], a[4], a[5])]

\* vaa.generate_inventory_recommendation(...): what
\* generate_inventory_recommendation returns, read from
\* ComputedRecommendations when the arguments are among
\* RecommendationArguments
vaa_generate_inventory_recommendation(self_level, forecast, current_inventory, lead_time_days, safety_stock_factor) ==
    IF <<self_level, forecast, current_inventory, lead_time_days, safety_stock_factor>> \in RecommendationArguments
    THEN ComputedRecommendations[<<self_level, forecast, current_inventory, lead_time_days, safety_stock_factor>>]
    ELSE generate_inventory_recommendation(self_level, forecast, current_inventory,
                                           lead_time_days, safety_stock_factor)

\* execute_inventory_action that also files a blocked action's result in
\* decision_log
execute_inventory_action_logging_escalations(vaa, act, planner) ==
    IF blocks_execution(act, planner)
    THEN [vaa |-> [vaa EXCEPT !.escalation_queue = list_append(@, act),
                              !.decision_log = list_append(@, escalated_result(act))],
          result |-> escalated_result(act)]
    ELSE [vaa |-> [vaa EXCEPT !.decision_log =
                       list_append(@, inventory_execution_result(act, planner))],
          result |-> inventory_execution_result(act, planner)]

\* execute_inventory_action on a VAA held in self.vaas: the VAA after the
\* call and the dictionary returned
execute_inventory_action(vaa, act, planner) ==
    IF blocks_execution(act, planner)
    THEN [vaa |-> [vaa EXCEPT !.escalation_queue = list_append(@, act)],
          result |-> escalated_result(act)]
    ELSE [vaa |-> [vaa EXCEPT !.decision_log =
                       list_append(@, inventory_execution_result(act, planner))],
          result |-> inventory_execution_result(act, planner)]

\* process_inventory_cycle, lines 420 and 429-433: the forecast is put in
\* cycle_results and the result of the action in its escalations or actions
cycle_logged(executed, results, forecast) ==
    [vaa |-> executed.vaa,
     cycle_results |->
        IF executed.result.status = "escalated"
        THEN [results EXCEPT !.forecasts = list_append(@, forecast),
                             !.escalations = list_append(@, executed.result)]
        ELSE [results EXCEPT !.forecasts = list_append(@, forecast),
                             !.actions = list_append(@, executed.result)]]

\* process_inventory_cycle, lines 421-433: one product is recommended on
\* its forecast, executed and logged
cycle_item(cycle, forecast, inventory_qty) ==
    cycle_logged(
        execute_inventory_action(
            cycle.vaa,
            vaa_generate_inventory_recommendation(cycle.vaa.autonomy_level, forecast,
                                                  inventory_qty, 14, Hundredths(20)),
            None),
        cycle.cycle_results, forecast)

\* process_inventory_cycle: the loop over current_inventory.items(), from
\* item k on; cycle holds the VAA and the cycle_results so far, items is
\* the dictionary in insertion order, draws what random() returns for each
\* forecast
RECURSIVE inventory_cycle(_, _, _, _, _, _)
inventory_cycle(cycle, location_id, historical_data, items, draws, k) ==
    IF k > Len(items) THEN cycle
    ELSE inventory_cycle(
             cycle_item(cycle,
                        vaa_forecast_demand(
                            Get(historical_data, items[k].product_id, EmptyDict),
                            items[k].product_id, location_id, 30, draws[k]),
                        items[k].inventory_qty),
             location_id, historical_data, items, draws, k + 1)

\* process_inventory_cycle, line 435: the VAA of the location is the one
\* the loop has run and cycle_results is returned
cycle_returned(self_vaas, location_id, cycle) ==
    [raises |-> "none",
     vaas |-> [self_vaas EXCEPT ![location_id] = cycle.vaa],
     cycle_results |-> cycle.cycle_results]

\* process_inventory_cycle: the orchestrator's VAAs after the call and the
\* cycle_results returned, or the KeyError of self.vaas[location_id]
process_inventory_cycle(self_vaas, location_id, historical_data, items, draws) ==
    IF location_id \notin DOMAIN self_vaas
    THEN [raises |-> "KeyError", vaas |-> self_vaas]
    ELSE cycle_returned(
             self_vaas, location_id,
             inventory_cycle([vaa |-> self_vaas[location_id],
                              cycle_results |->
                                  [location_id |-> location_id, forecasts |-> <<>>,
                                   actions |-> <<>>, escalations |-> <<>>]],
                             location_id, historical_data, items, draws, 1))

\* the forecast run on a registered VAA: its action is escalated without a
\* planner and logged with one
RegisteredForecasts ==
    { f \in Forecasts :
        /\ f.accuracy_metric = Hundredths(60)
        /\ f.historical_error_rate = Hundredths(40) }

\* the vaa_id arguments of an audit: the id and the location of each VAA
AuditIds == Locations \cup {vaa_id_of(l) : l \in Locations}

\* ------------------------------------------------------------------ Stage3PilotValidationFramework
\* define_success_criteria: the criteria list
define_success_criteria ==
    << [criteria_id |-> 1, metric_name |-> "Process Accuracy",
        metric_type |-> "quantitative",
        baseline_value |-> Hundredths(92), target_value |-> Hundredths(96),
        minimum_acceptable |-> Hundredths(94),
        measurement_method |-> "% of decisions matching subject matter expert review",
        frequency |-> "daily"],
       [criteria_id |-> 2, metric_name |-> "Cycle Time Reduction",
        metric_type |-> "quantitative",
        baseline_value |-> Hundredths(0), target_value |-> Hundredths(40),
        minimum_acceptable |-> Hundredths(25),
        measurement_method |-> "% reduction vs. manual baseline",
        frequency |-> "daily"],
       [criteria_id |-> 3, metric_name |-> "System Availability",
        metric_type |-> "quantitative",
        baseline_value |-> Hundredths(0), target_value |-> Hundredths(99),
        minimum_acceptable |-> Hundredths(95),
        measurement_method |-> "% uptime",
        frequency |-> "continuous"],
       [criteria_id |-> 4, metric_name |-> "User Trust in VAA",
        metric_type |-> "qualitative",
        baseline_value |-> Hundredths(55), target_value |-> Hundredths(80),
        minimum_acceptable |-> Hundredths(70),
        measurement_method |-> "Survey score (1-10 scale)",
        frequency |-> "weekly"],
       [criteria_id |-> 5, metric_name |-> "Escalation Frequency",
        metric_type |-> "quantitative",
        baseline_value |-> Hundredths(100), target_value |-> Hundredths(10),
        minimum_acceptable |-> Hundredths(15),
        measurement_method |-> "% of decisions requiring human review",
        frequency |-> "daily"] >>

\* validate_pilot_results: actual, the double reported for a metric, and
\* the float product target_value * 0.9 when actual_metrics has none
actual_value(metric, metrics) ==
    IF metric.metric_name \in DOMAIN metrics
    THEN metrics[metric.metric_name]
    ELSE DoubleMul(metric.target_value, Hundredths(90))

\* validate_pilot_results: the counter the if / elif / else adds one to
metric_bucket(metric, actual) ==
    IF ~DoubleLess(actual, metric.target_value)
    THEN "metrics_meeting_targets"
    ELSE IF ~DoubleLess(actual, metric.minimum_acceptable)
    THEN "metrics_meeting_minimum"
    ELSE "metrics_below_minimum"

\* validate_pilot_results: the entry of required_actions_before_scaling,
\* "Address {metric_name}: current {actual:.2f}, target {target_value:.2f}"
required_action(metric, actual) ==
    [address |-> metric.metric_name,
     current |-> format_2f(actual),
     target |-> format_2f(metric.target_value)]

\* validate_pilot_results whose second test is an if of its own instead of
\* an elif: a metric that meets its target is counted as meeting the
\* minimum too
validate_pilot_results_second_if(self_pilot_metrics, metrics) ==
    LET n == Len(self_pilot_metrics)
        actual == [k \in 1..n |-> actual_value(self_pilot_metrics[k], metrics)]
        meets_target ==
            {k \in 1..n :
                ~DoubleLess(actual[k], self_pilot_metrics[k].target_value)}
        meets_minimum ==
            {k \in 1..n :
                ~DoubleLess(actual[k], self_pilot_metrics[k].minimum_acceptable)}
        below == SelectSeq([k \in 1..n |-> k], LAMBDA k : k \notin meets_minimum)
    IN [metrics_meeting_targets |-> Cardinality(meets_target),
        metrics_meeting_minimum |-> Cardinality(meets_minimum),
        metrics_below_minimum |-> Len(below),
        go_no_go_recommendation |->
            IF Len(below) = 0 THEN "proceed_to_scale" ELSE "proceed_with_caution",
        required_actions_before_scaling |->
            [j \in 1..Len(below) |->
                required_action(self_pilot_metrics[below[j]], actual[below[j]])]]

\* validate_pilot_results; validation_id and validation_date are left out
validate_pilot_results(self_pilot_metrics, metrics) ==
    LET n == Len(self_pilot_metrics)
        actual == [k \in 1..n |-> actual_value(self_pilot_metrics[k], metrics)]
        bucket == [k \in 1..n |-> metric_bucket(self_pilot_metrics[k], actual[k])]
        count(b) == Cardinality({k \in 1..n : bucket[k] = b})
        below == SelectSeq([k \in 1..n |-> k],
                           LAMBDA k : bucket[k] = "metrics_below_minimum")
    IN [metrics_meeting_targets |-> count("metrics_meeting_targets"),
        metrics_meeting_minimum |-> count("metrics_meeting_minimum"),
        metrics_below_minimum |-> count("metrics_below_minimum"),
        go_no_go_recommendation |->
            IF count("metrics_below_minimum") = 0
            THEN "proceed_to_scale" ELSE "proceed_with_caution",
        required_actions_before_scaling |->
            [j \in 1..Len(below) |->
                required_action(self_pilot_metrics[below[j]], actual[below[j]])]]

\* the actual_metrics dictionaries a caller passes: each metric is reported
\* (a set of one value) or absent (the empty set), with values on both sides
\* of its thresholds, the figures of __main__ (0.952, 0.38, 0.985, 0.76,
\* 0.095) and 0.245, which is halfway between two decimals of two places
PilotDict(pa, ct, sa, ut, ef) ==
    LET reported == [n \in {"Process Accuracy", "Cycle Time Reduction",
                            "System Availability", "User Trust in VAA",
                            "Escalation Frequency"} |->
                        CASE n = "Process Accuracy" -> pa
                          [] n = "Cycle Time Reduction" -> ct
                          [] n = "System Availability" -> sa
                          [] n = "User Trust in VAA" -> ut
                          [] OTHER -> ef]
    IN [n \in {m \in DOMAIN reported : reported[m] # {}} |->
            CHOOSE v \in reported[n] : TRUE]

ActualPilotMetrics ==
    { PilotDict(pa, ct, sa, ut, ef) :
        pa \in {{}, {Thousandths(952)}},
        ct \in {{}, {Thousandths(245)}, {Thousandths(380)}},
        sa \in {{Thousandths(985)}, {Hundredths(99)}},
        ut \in {{Hundredths(69)}, {Hundredths(76)}},
        ef \in {{}, {Hundredths(5)}, {Thousandths(95)}, {Hundredths(10)},
                {Hundredths(50)}} }

\* ------------------------------------------------------------------ state
\* the BusinessOperationsVAA after __init__, and a caller that has called
\* nothing yet
InitOperations ==
    /\ process_log = <<>>
    /\ escalation_queue = <<>>
    /\ decision_audit_trail = <<>>
    /\ compliance_rules = initialize_compliance_rules
    /\ pathway = None
    /\ classification = None
    /\ compliance_check = None
    /\ allocation = None
    /\ execution = None
    /\ human_approval = None
    /\ calls = 0
    /\ exceptions = None

\* the DemandForecastingVAA after __init__(vaa_id, autonomy_level), and a
\* caller that has called nothing yet
InitSupplyChain ==
    /\ decision_log = <<>>
    /\ sc_escalation_queue = <<>>
    /\ action = None
    /\ approved_by_planner = None
    /\ result = None
    /\ sc_calls = 0
    /\ model_version = "1.0"

\* no execute_task call runs concurrently
NoThreads == [t \in {} |-> 0]

\* the SupplyChainVAAOrchestrator after __init__, and a caller that has
\* called nothing yet
InitOrchestrator ==
    /\ vaas = EmptyDict
    /\ governance_log = <<>>
    /\ orch_escalation_queue = <<>>
    /\ audit_vaa_id = None
    /\ audit = None
    /\ cycle_args = None
    /\ cycle_results = None

\* the MarketingVAA after __init__, and a caller that has called nothing yet
InitMarketing ==
    /\ campaigns = EmptyDict
    /\ segments = EmptyDict
    /\ performance_log = <<>>
    /\ ethical_audit_trail = <<>>
    /\ fairness_constraints = initialize_fairness_constraints
    /\ checked_segment = None
    /\ fairness_check = None
    /\ mk_result = None
    /\ mk_calls = 0

\* the Stage3PilotValidationFramework after __init__, and a caller that has
\* called nothing yet
InitPilot ==
    /\ pilot_metrics = <<>>
    /\ pilot_actual_metrics = None
    /\ validation = None

Init ==
    /\ InitOperations
    /\ input = None
    /\ InitSupplyChain
    /\ autonomy_level = SEMI_AUTONOMOUS
    /\ InitOrchestrator
    /\ InitMarketing
    /\ InitPilot
    /\ threads = NoThreads

\* the caller builds an OperationalInput
ReceiveInput(i) ==
    /\ input' = i
    /\ pathway' = None
    /\ classification' = None
    /\ compliance_check' = None
    /\ allocation' = None
    /\ execution' = None
    /\ human_approval' = None
    /\ exceptions' = None
    /\ UNCHANGED <<vaa_fields, calls, beside_bo>>

\* pathway, classification = vaa.classify_input(sample_input)
ClassifyInput ==
    /\ input # None
    /\ classification' = classify_input(input)
    /\ pathway' = [name |-> classify_input(input).process_pathway]
    /\ UNCHANGED <<vaa_fields, input, compliance_check, allocation, execution,
                   human_approval, calls, exceptions, beside_bo>>

\* ValidateBusinessRules that also files the status it found in
\* decision_audit_trail
ValidateBusinessRulesAudited ==
    /\ input # None
    /\ pathway # None
    /\ compliance_check' = validate_business_rules(input, pathway.name, compliance_rules)
    /\ decision_audit_trail' =
           IF compliance_check'.raises = "none"
           THEN list_append(decision_audit_trail,
                            [compliance_status |-> compliance_check'.compliance_status])
           ELSE decision_audit_trail
    /\ UNCHANGED <<process_log, escalation_queue, compliance_rules, input, pathway,
                   classification, allocation, execution, human_approval, calls,
                   exceptions, beside_bo>>

\* compliance_check = vaa.validate_business_rules(sample_input, pathway)
ValidateBusinessRules ==
    /\ input # None
    /\ pathway # None
    /\ compliance_check' = validate_business_rules(input, pathway.name, compliance_rules)
    /\ UNCHANGED <<vaa_fields, input, pathway, classification, allocation, execution,
                   human_approval, calls, exceptions, beside_bo>>

\* AllocateResources that takes the slot it assigns out of
\* max_concurrent_assignments
AllocateResourcesTakingSlot(busy) ==
    /\ input # None
    /\ pathway # None
    /\ allocation' = allocate_resources(input, pathway.name, input.priority_level,
                                        compliance_rules, busy)
    /\ compliance_rules' =
           [compliance_rules EXCEPT
               !.resource_allocation.max_concurrent_assignments =
                   IF @ > 0 /\ allocation'.resource_availability_check THEN @ - 1 ELSE @]
    /\ UNCHANGED <<process_log, escalation_queue, decision_audit_trail, input, pathway,
                   classification, compliance_check, execution, human_approval, calls,
                   exceptions, beside_bo>>

\* allocation = vaa.allocate_resources(sample_input, pathway, priority_level)
AllocateResources(busy) ==
    /\ input # None
    /\ pathway # None
    /\ allocation' = allocate_resources(input, pathway.name, input.priority_level,
                                        compliance_rules, busy)
    /\ UNCHANGED <<vaa_fields, input, pathway, classification, compliance_check,
                   execution, human_approval, calls, exceptions,
                   beside_bo>>

\* execution = vaa.execute_task(sample_input, classification, compliance_check,
\*                              allocation, human_approval)
ExecuteTask(approval, clock_gap) ==
    /\ input # None
    /\ classification # None
    /\ compliance_check # None
    /\ compliance_check.raises = "none"
    /\ allocation # None
    /\ calls < MaxCalls
    /\ calls' = calls + 1
    /\ human_approval' = approval
    /\ IF must_escalate(compliance_check, approval)
       THEN LET record == escalation_record(calls + 1, input, compliance_check, allocation)
            IN /\ escalation_queue' = list_append(escalation_queue, record)
               /\ execution' = record
               /\ UNCHANGED <<process_log, decision_audit_trail>>
       ELSE LET record == execution_result(calls + 1, input, classification,
                                           compliance_check, allocation, approval,
                                           clock_gap)
            IN /\ process_log' = list_append(process_log, record)
               /\ decision_audit_trail' =
                      list_append(decision_audit_trail, record.audit_trail)
               /\ execution' = record
               /\ UNCHANGED escalation_queue
    /\ UNCHANGED <<compliance_rules, input, pathway, classification, compliance_check,
                   allocation, exceptions, beside_bo>>

\* action = vaa.generate_inventory_recommendation(forecast, current_inventory)
GenerateInventoryRecommendation(forecast, current_inventory) ==
    /\ action' = vaa_generate_inventory_recommendation(autonomy_level, forecast,
                                                       current_inventory, 14,
                                                       Hundredths(20))
    /\ approved_by_planner' = None
    /\ result' = None
    /\ UNCHANGED <<beside_sc, sc_fields, sc_calls>>

\* ExecuteInventoryAction that takes an action off escalation_queue when it
\* is executed with a planner's approval
ExecuteInventoryActionDequeuing(planner) ==
    /\ action # None
    /\ sc_calls < MaxCalls
    /\ sc_calls' = sc_calls + 1
    /\ approved_by_planner' = planner
    /\ IF blocks_execution(action, planner)
       THEN /\ sc_escalation_queue' = list_append(sc_escalation_queue, action)
            /\ result' = escalated_result(action)
            /\ UNCHANGED decision_log
       ELSE /\ decision_log' =
                   list_append(decision_log, inventory_execution_result(action, planner))
            /\ result' = inventory_execution_result(action, planner)
            /\ sc_escalation_queue' =
                   SelectSeq(sc_escalation_queue, LAMBDA queued : queued # action)
    /\ UNCHANGED <<beside_sc, autonomy_level, model_version, action>>

\* result = vaa.execute_inventory_action(action, approved_by_planner)
ExecuteInventoryAction(planner) ==
    /\ action # None
    /\ sc_calls < MaxCalls
    /\ sc_calls' = sc_calls + 1
    /\ approved_by_planner' = planner
    /\ IF blocks_execution(action, planner)
       THEN /\ sc_escalation_queue' = list_append(sc_escalation_queue, action)
            /\ result' = escalated_result(action)
            /\ UNCHANGED decision_log
       ELSE /\ decision_log' =
                   list_append(decision_log, inventory_execution_result(action, planner))
            /\ result' = inventory_execution_result(action, planner)
            /\ UNCHANGED sc_escalation_queue
    /\ UNCHANGED <<beside_sc, autonomy_level, model_version, action>>

HumanApprovals == {None} \cup {[id |-> a] : a \in Approvers}

PlannerApprovals == {None} \cup {[id |-> a] : a \in Planners}

\* the operations of a BusinessOperationsVAA, called in any order
Next ==
    \/ \E i \in TaskInputs : ReceiveInput(i)
    \/ ClassifyInput
    \/ ValidateBusinessRules
    \/ \E busy \in BusyPatterns : AllocateResources(busy)
    \/ \E approval \in HumanApprovals, clock_gap \in ClockGaps :
           ExecuteTask(approval, clock_gap)

Spec == Init /\ [][Next]_vars

\* the evaluation alone, on every input of Inputs: the caller has built an
\* input, then classifies and validates it
InitEval ==
    /\ InitOperations
    /\ input \in Inputs
    /\ InitSupplyChain
    /\ autonomy_level = SEMI_AUTONOMOUS
    /\ InitOrchestrator
    /\ InitMarketing
    /\ InitPilot
    /\ threads = NoThreads

NextEval ==
    \/ ClassifyInput
    \/ ValidateBusinessRules

SpecEval == InitEval /\ [][NextEval]_vars

\* the operations of a DemandForecastingVAA, called in any order
NextSC ==
    \/ \E f \in Forecasts, c \in Inventories : GenerateInventoryRecommendation(f, c)
    \/ \E planner \in PlannerApprovals : ExecuteInventoryAction(planner)

\* a DemandForecastingVAA built with either autonomy level that
\* _determine_decision_level tells apart
InitSC ==
    /\ InitOperations
    /\ input = None
    /\ InitSupplyChain
    /\ autonomy_level \in {AUTONOMOUS, SEMI_AUTONOMOUS}
    /\ InitOrchestrator
    /\ InitMarketing
    /\ InitPilot
    /\ threads = NoThreads

SpecSC == InitSC /\ [][NextSC]_vars

\* ------------------------------------------------------------------ monitoring and marketing
\* exceptions = vaa.monitor_workflow_exceptions()
MonitorWorkflowExceptions ==
    /\ exceptions' = monitor_workflow_exceptions(process_log, escalation_queue)
    /\ UNCHANGED <<vaa_fields, input, pathway, classification, compliance_check,
                   allocation, execution, human_approval, calls, beside_bo>>

\* segments = vaa.segment_customers(customer_data)
SegmentCustomers(customer_data_len) ==
    LET built == built_segments(customer_data_len)
        concerns == logged_concerns(segment_keys, built, fairness_constraints, mk_calls + 1)
    IN /\ ethical_audit_trail' = ethical_audit_trail \o concerns
       /\ mk_calls' = mk_calls + (Len(ethical_audit_trail') - Len(ethical_audit_trail))
       /\ mk_calls' <= MaxCalls
       /\ segments' = Update(segments, built)
       /\ mk_result' = built
       /\ UNCHANGED <<campaigns, performance_log, fairness_constraints, checked_segment,
                      fairness_check, beside_mk>>

\* one round of the validation loop of segment_customers on a segment the
\* caller built: fairness_check = self._validate_segment_fairness(segment),
\* then self._log_fairness_concern(segment, fairness_check) if it is not
\* compliant
ValidateSegmentFairness(segment) ==
    LET check == validate_segment_fairness(segment, fairness_constraints)
    IN /\ mk_calls < MaxCalls
       /\ checked_segment' = segment
       /\ fairness_check' = check
       /\ IF ~check.is_compliant
          THEN /\ ethical_audit_trail' =
                      list_append(ethical_audit_trail,
                                  fairness_concern(mk_calls + 1, segment, check))
               /\ mk_calls' = mk_calls + 1
          ELSE UNCHANGED <<ethical_audit_trail, mk_calls>>
       /\ UNCHANGED <<campaigns, segments, performance_log, fairness_constraints,
                      mk_result, beside_mk>>

\* budget_allocation = vaa.allocate_campaign_budget(campaign_id, total_budget,
\*                                                  segments, channels)
AllocateCampaignBudget(campaign_id, total_budget) ==
    LET allocated == budget_allocation(mk_calls + 1, campaign_id, total_budget)
    IN /\ mk_calls < MaxCalls
       /\ mk_calls' = mk_calls + 1
       /\ campaigns' = Update(campaigns, campaign_id :> allocated)
       /\ mk_result' = allocated
       /\ UNCHANGED <<segments, performance_log, ethical_audit_trail,
                      fairness_constraints, checked_segment, fairness_check, beside_mk>>

\* insight = vaa.generate_performance_insights(campaign_id, segment_id,
\*                                             actual_metrics)
GeneratePerformanceInsights(campaign_id, segment_id, actual_metrics) ==
    LET insight == performance_insight(mk_calls + 1, campaign_id, segment_id, actual_metrics)
    IN /\ mk_calls < MaxCalls
       /\ mk_calls' = mk_calls + 1
       /\ performance_log' = list_append(performance_log, insight)
       /\ mk_result' = insight
       /\ UNCHANGED <<campaigns, segments, ethical_audit_trail, fairness_constraints,
                      checked_segment, fairness_check, beside_mk>>

\* fairness = vaa.calculate_fairness_metrics()
CalculateFairnessMetrics ==
    LET assessment == fairness_assessment(mk_calls + 1)
    IN /\ mk_calls < MaxCalls
       /\ mk_calls' = mk_calls + 1
       /\ ethical_audit_trail' =
              list_append(ethical_audit_trail, fairness_audit_entry(mk_calls + 1, assessment))
       /\ mk_result' = assessment
       /\ UNCHANGED <<campaigns, segments, performance_log, fairness_constraints,
                      checked_segment, fairness_check, beside_mk>>

\* the operations of a MarketingVAA, called in any order
NextMarketing ==
    \/ \E n \in CustomerCounts : SegmentCustomers(n)
    \/ \E segment \in CheckedSegments : ValidateSegmentFairness(segment)
    \/ \E c \in Campaigns : AllocateCampaignBudget(c, 50000)
    \/ \E c \in Campaigns, m \in ActualMetrics :
           GeneratePerformanceInsights(c, "seg_behavioral_high_engagement", m)
    \/ CalculateFairnessMetrics

SpecMarketing == Init /\ [][NextMarketing]_vars

\* the input the monitored operations are run on: a duplicate invoice, which
\* is escalated without an approval and executed on one, estimated at 4.0
\* hours, the hours monitor_workflow_exceptions tests the average against
MonitoredInputs ==
    { [input_id |-> "INV_001", input_type |-> "invoice",
       entity_id |-> "vendor_xyz_corp", amount |-> 1200,
       metadata |-> [po_invoice_variance |-> 0, is_duplicate |-> TRUE,
                     estimated_hours |-> 16],
       priority_level |-> 3] }

\* the operations of a BusinessOperationsVAA with its monitoring, called in
\* any order
NextOperations ==
    \/ \E i \in MonitoredInputs : ReceiveInput(i)
    \/ ClassifyInput
    \/ ValidateBusinessRules
    \/ \E busy \in BusyPatterns : AllocateResources(busy)
    \/ \E approval \in HumanApprovals, clock_gap \in ClockGaps :
           ExecuteTask(approval, clock_gap)
    \/ MonitorWorkflowExceptions

\* the three agents are separate objects that share no state: an operation
\* of one agent reads and writes only that agent, so what holds of each
\* agent run alone holds of any interleaving
OperationsUntouched == InitOperations /\ input = None

SupplyChainUntouched == InitSupplyChain

MarketingUntouched == InitMarketing

\* the forecasts the DemandForecastingVAA is run on beside the other agents:
\* one whose action needs approval and one whose action does not
SampledForecasts ==
    { f \in Forecasts :
        <<f.accuracy_metric, f.historical_error_rate>>
            \in {<<Hundredths(70), Hundredths(30)>>, <<Hundredths(90), Hundredths(10)>>} }

\* the operations of a DemandForecastingVAA on the sampled forecasts
NextSupplyChain ==
    \/ \E f \in SampledForecasts, c \in Inventories : GenerateInventoryRecommendation(f, c)
    \/ \E planner \in PlannerApprovals : ExecuteInventoryAction(planner)

\* every behaviour of one agent run alone
NextAgents ==
    \/ SupplyChainUntouched /\ MarketingUntouched /\ NextOperations
    \/ OperationsUntouched /\ MarketingUntouched /\ NextSupplyChain
    \/ OperationsUntouched /\ SupplyChainUntouched /\ NextMarketing

SpecAgents == Init /\ [][NextAgents]_vars

\* ------------------------------------------------------------------ concurrent execute_task calls
\* Two callers run execute_task on one BusinessOperationsVAA at the same
\* time.  Each has evaluated its own input beforehand; a call is the test of
\* line 342 with the escalation (lines 343-356) or the building of
\* execution_result (lines 358-381), then the append of line 384, then the
\* append of line 385, and another call may run between any two of them.
Threads == {1, 2}

\* the arguments a caller holds when it calls execute_task: an input it has
\* classified, validated and got resources for, whatever the draws of the
\* allocation were, and its human_approval
CallArguments ==
    { [pc |-> "start",
       input |-> i,
       classification |-> classify_input(i),
       compliance_check |->
           validate_business_rules(i, classify_input(i).process_pathway,
                                   initialize_compliance_rules),
       allocation |->
           allocate_resources(i, classify_input(i).process_pathway, i.priority_level,
                              initialize_compliance_rules, busy),
       human_approval |-> approval,
       execution |-> None] :
        i \in {j \in TaskInputs : rules_bound(classify_input(j).process_pathway)},
        busy \in BusyPatterns,
        approval \in HumanApprovals }

InitConcurrent ==
    /\ InitOperations
    /\ input = None
    /\ InitSupplyChain
    /\ autonomy_level = SEMI_AUTONOMOUS
    /\ InitOrchestrator
    /\ InitMarketing
    /\ InitPilot
    /\ threads \in [Threads -> CallArguments]

\* the frame of a step of a concurrent call
ConcurrentFrame ==
    UNCHANGED <<compliance_rules, input, pathway, classification, compliance_check,
                allocation, execution, human_approval, calls, exceptions, sc_vars,
                orch_vars, mk_vars, pilot_vars>>

\* execute_task, lines 341-381: the call of thread t is escalated and
\* returns, or builds its execution_result
ExecuteTaskBegin(t, clock_gap) ==
    LET call == threads[t]
    IN /\ call.pc = "start"
       /\ IF must_escalate(call.compliance_check, call.human_approval)
          THEN LET record == escalation_record(t, call.input, call.compliance_check,
                                               call.allocation)
               IN /\ escalation_queue' = list_append(escalation_queue, record)
                  /\ threads' = [threads EXCEPT ![t].pc = "done", ![t].execution = record]
          ELSE LET record == execution_result(t, call.input, call.classification,
                                              call.compliance_check, call.allocation,
                                              call.human_approval, clock_gap)
               IN /\ threads' = [threads EXCEPT ![t].pc = "append_process_log",
                                                ![t].execution = record]
                  /\ UNCHANGED escalation_queue
       /\ UNCHANGED <<process_log, decision_audit_trail>>
       /\ ConcurrentFrame

\* execute_task, line 384: self.process_log.append(execution_result)
ExecuteTaskAppendProcessLog(t) ==
    /\ threads[t].pc = "append_process_log"
    /\ process_log' = list_append(process_log, threads[t].execution)
    /\ threads' = [threads EXCEPT ![t].pc = "append_audit_trail"]
    /\ UNCHANGED <<escalation_queue, decision_audit_trail>>
    /\ ConcurrentFrame

\* execute_task, lines 385-387:
\* self.decision_audit_trail.append(execution_result['audit_trail']) and return
ExecuteTaskAppendAuditTrail(t) ==
    /\ threads[t].pc = "append_audit_trail"
    /\ decision_audit_trail' = list_append(decision_audit_trail,
                                           threads[t].execution.audit_trail)
    /\ threads' = [threads EXCEPT ![t].pc = "done"]
    /\ UNCHANGED <<process_log, escalation_queue>>
    /\ ConcurrentFrame

NextConcurrent ==
    \E t \in Threads :
        \/ \E clock_gap \in ClockGaps : ExecuteTaskBegin(t, clock_gap)
        \/ ExecuteTaskAppendProcessLog(t)
        \/ ExecuteTaskAppendAuditTrail(t)

SpecConcurrent == InitConcurrent /\ [][NextConcurrent]_vars

\* ------------------------------------------------------------------ orchestrator
\* vaa = orchestrator.register_vaa(location_id, autonomy_level)
RegisterVaa(location_id, level) ==
    /\ vaas' = Update(vaas, vaas_key(location_id) :> new_vaa(location_id, level))
    /\ UNCHANGED <<governance_log, orch_escalation_queue, audit_vaa_id, audit,
                   cycle_args, cycle_results, beside_orch>>

\* the caller runs a registered VAA, as process_inventory_cycle does:
\* vaa = self.vaas[location_id], then
\* vaa.execute_inventory_action(vaa.generate_inventory_recommendation(forecast,
\* current_inventory), approved_by_planner)
ExecuteOnRegisteredVaa(location_id, forecast, current_inventory, planner) ==
    /\ location_id \in DOMAIN vaas
    /\ LET vaa == vaas[location_id]
       IN /\ Len(vaa.decision_log) + Len(vaa.escalation_queue) < MaxCalls
          /\ vaas' =
                 [vaas EXCEPT ![location_id] =
                     execute_inventory_action(
                         vaa,
                         vaa_generate_inventory_recommendation(
                             vaa.autonomy_level, forecast, current_inventory, 14,
                             Hundredths(20)),
                         planner).vaa]
    /\ UNCHANGED <<governance_log, orch_escalation_queue, audit_vaa_id, audit,
                   cycle_args, cycle_results, beside_orch>>

\* the whole days the clock can show between the building of a VAA and an
\* audit: the same day, and either side of the retraining interval
DaysSinceTraining == {0, 90, 91}

\* audit = orchestrator.audit_governance_compliance(vaa_id), days being what
\* the clock shows at the call
AuditGovernanceCompliance(vaa_id, days) ==
    /\ audit_vaa_id' = [id |-> vaa_id]
    /\ audit' = audit_governance_compliance(vaas, vaa_id, days)
    /\ UNCHANGED <<orch_fields, cycle_args, cycle_results, beside_orch>>

\* the operations of a SupplyChainVAAOrchestrator and of the VAAs it
\* registered, called in any order
NextOrchestrator ==
    \/ \E l \in Locations, level \in {AUTONOMOUS, SEMI_AUTONOMOUS} : RegisterVaa(l, level)
    \/ \E l \in Locations, f \in RegisteredForecasts, planner \in PlannerApprovals :
           ExecuteOnRegisteredVaa(l, f, 0, planner)
    \/ \E id \in AuditIds, days \in DaysSinceTraining : AuditGovernanceCompliance(id, days)

SpecOrchestrator == Init /\ [][NextOrchestrator]_vars

\* ------------------------------------------------------------------ inventory cycles
\* cycle_results = orchestrator.process_inventory_cycle(location_id,
\*                     historical_data, current_inventory)
\* the call ends: self.vaas is as the call leaves it, and cycle_results is
\* what it returned or the exception it raised
CycleEnds(cycle) ==
    /\ vaas' = cycle.vaas
    /\ cycle_results' =
           IF cycle.raises = "none"
           THEN [raises |-> "none"] @@ cycle.cycle_results
           ELSE [raises |-> cycle.raises]

ProcessInventoryCycle(location_id, historical_data, items, draws) ==
    LET call == IF cycle_args = None THEN 1 ELSE cycle_args.call + 1
    IN /\ call <= MaxCalls
       /\ location_id \in DOMAIN vaas =>
              Len(vaas[location_id].decision_log)
                  + Len(vaas[location_id].escalation_queue) + Len(items) <= MaxCalls
       /\ cycle_args' = [call |-> call, location_id |-> location_id,
                         historical_data |-> historical_data,
                         current_inventory |-> items]
       /\ CycleEnds(process_inventory_cycle(vaas, location_id, historical_data, items,
                                            draws))
       /\ UNCHANGED <<governance_log, orch_escalation_queue, audit_vaa_id, audit,
                      beside_orch>>

\* an orchestrator whose caller registers a VAA for one location, runs
\* inventory cycles for that location and for one that has no VAA, and calls
\* execute_inventory_action on the registered VAA, with or without a
\* planner's approval
NextCycle ==
    \/ \E level \in {AUTONOMOUS, SEMI_AUTONOMOUS} :
           RegisterVaa("warehouse_us_central", level)
    \/ \E l \in Locations, items \in CycleInventories :
           \E draws \in [1..Len(items) -> RandomDraws] :
               ProcessInventoryCycle(l, HistoricalData, items, draws)
    \/ \E l \in Locations, f \in RegisteredForecasts, planner \in PlannerApprovals :
           ExecuteOnRegisteredVaa(l, f, 0, planner)

SpecCycle == Init /\ [][NextCycle]_vars

\* ------------------------------------------------------------------ pilot validation
\* criteria = stage3.define_success_criteria(process_name)
DefineSuccessCriteria ==
    /\ pilot_metrics' = define_success_criteria
    /\ UNCHANGED <<pilot_actual_metrics, validation, beside_pilot>>

\* validation = stage3.validate_pilot_results(actual_metrics)
ValidatePilotResults(metrics) ==
    /\ pilot_actual_metrics' = metrics
    /\ validation' = validate_pilot_results(pilot_metrics, metrics)
    /\ UNCHANGED <<pilot_metrics, beside_pilot>>

NextPilot ==
    \/ DefineSuccessCriteria
    \/ \E metrics \in ActualPilotMetrics : ValidatePilotResults(metrics)

SpecPilot == Init /\ [][NextPilot]_vars

\* ------------------------------------------------------------------ claims
\* validate_business_rules returned a ComplianceCheckResult
Returned(check) == check # None /\ check.raises = "none"

\* the signal of an input: the amount of a procurement request, the
\* po_invoice_variance of an invoice
Signal(i) ==
    IF i.input_type = "invoice"
    THEN Get(i.metadata, "po_invoice_variance", 0)
    ELSE i.amount

\* two inputs that differ in the signal at most
SameButSignal(i, j) ==
    /\ i.input_type = j.input_type
    /\ i.input_id = j.input_id
    /\ i.priority_level = j.priority_level
    /\ Get(i.metadata, "vendor_rating", 0) = Get(j.metadata, "vendor_rating", 0)
    /\ Get(i.metadata, "is_duplicate", FALSE) = Get(j.metadata, "is_duplicate", FALSE)
    /\ (i.input_type = "invoice" => i.amount = j.amount)

\* C1: on every pathway classify_input returns and every input,
\* validate_business_rules returns a result whose status is GREEN, YELLOW or
\* RED, and raises nothing
C1_ValidateIsTotal ==
    compliance_check # None =>
        /\ compliance_check.raises = "none"
        /\ compliance_check.compliance_status \in ComplianceLevel

\* C2: with the other fields fixed, a larger signal (amount, or
\* po_invoice_variance) never gets a less severe status
C2_Monotone ==
    Returned(compliance_check) =>
        \A j \in Inputs :
            (SameButSignal(input, j) /\ Signal(input) < Signal(j)) =>
                LET other == validate_business_rules(j, pathway.name, compliance_rules)
                IN /\ other.raises = "none"
                   /\ Severity(compliance_check.compliance_status)
                          <= Severity(other.compliance_status)

\* C3: a signal equal to a bound falls on the lower-severity side: amount
\* 50000 adds no violation, amount 100000 adds the semi-autonomous violation,
\* variance 0.02 adds no violation, variance 0.05 adds the review violation,
\* an average risk of 0.4 is GREEN and one of 0.7 is YELLOW
C3_BoundaryIsLowerSide ==
    Returned(compliance_check) =>
        LET violations ==
                {compliance_check.rule_violations[k] :
                    k \in 1..Len(compliance_check.rule_violations)}
            procurement == pathway.name = "procurement_validation_routing"
            invoice == pathway.name = "three_way_match_and_payment"
            variance == Get(input.metadata, "po_invoice_variance", 0)
        IN /\ (procurement /\ input.amount = 50000) =>
                  violations \cap {"amount_in_semi_autonomous_range",
                                   "amount_exceeds_review_threshold"} = {}
           /\ (procurement /\ input.amount = 100000) =>
                  /\ "amount_in_semi_autonomous_range" \in violations
                  /\ "amount_exceeds_review_threshold" \notin violations
           /\ (invoice /\ variance = 200) =>
                  violations \cap {"variance_requires_review",
                                   "variance_exceeds_threshold"} = {}
           /\ (invoice /\ variance = 500) =>
                  /\ "variance_requires_review" \in violations
                  /\ "variance_exceeds_threshold" \notin violations
           /\ compliance_check.risk_score = 40 =>
                  compliance_check.compliance_status = GREEN
           /\ compliance_check.risk_score = 70 =>
                  compliance_check.compliance_status = YELLOW

\* a duplicate invoice with variance 0.05: the findings 0.4 and 1.0 average
\* to exactly 0.7
C3_Witness ==
    /\ Returned(compliance_check)
    /\ input.input_type = "invoice"
    /\ Get(input.metadata, "po_invoice_variance", 0) = 500
    /\ compliance_check.risk_score = 70
    /\ compliance_check.compliance_status = YELLOW

\* C4: a call of execute_task with requires_human_review and no
\* human_approval returns 'escalated' and leaves process_log and
\* decision_audit_trail as they are; the two logs change only in a call of
\* execute_task whose check asks for no review or that is given an approval
C4_EscalationGuard ==
    [][ /\ (calls' = calls + 1 /\ compliance_check.requires_human_review
                /\ human_approval' = None) =>
              /\ process_log' = process_log
              /\ decision_audit_trail' = decision_audit_trail
              /\ execution'.status = "escalated"
        /\ (process_log' # process_log \/ decision_audit_trail' # decision_audit_trail) =>
              /\ calls' = calls + 1
              /\ ~compliance_check.requires_human_review \/ human_approval' # None
      ]_vars

\* a call that was escalated after another one was logged
C4_Witness ==
    /\ execution # None
    /\ execution.status = "escalated"
    /\ compliance_check.requires_human_review
    /\ human_approval = None
    /\ Len(process_log) = 1

\* the last entry of a list
Last(list) == list[Len(list)]

\* C5: an action that requires approval and is given no planner is put on
\* escalation_queue, returns 'escalated' and is not added to decision_log; no
\* entry executed by 'vaa_autonomous' is added for an action that requires
\* approval
C5_NoAutonomousExecutionOfApprovalActions ==
    [][ /\ (sc_calls' = sc_calls + 1 /\ action.requires_approval
                /\ approved_by_planner' = None) =>
              /\ sc_escalation_queue' = Append(sc_escalation_queue, action)
              /\ result'.status = "escalated"
              /\ decision_log' = decision_log
        /\ (decision_log' # decision_log) =>
              /\ sc_calls' = sc_calls + 1
              /\ Len(decision_log') = Len(decision_log) + 1
              /\ Last(decision_log').executed_by = "vaa_autonomous" =>
                     ~action.requires_approval
      ]_vars

\* an action that requires approval was escalated after another action was
\* executed by the VAA itself
C5_Witness ==
    /\ result # None
    /\ result.status = "escalated"
    /\ action.requires_approval
    /\ Len(sc_escalation_queue) = 1
    /\ Len(decision_log) = 1
    /\ decision_log[1].executed_by = "vaa_autonomous"

\* C6, as claimed: every execute_task call adds one record to
\* decision_audit_trail
C6_OneAuditRecordPerCall ==
    Len(decision_audit_trail) = calls

\* the ordinals of the calls that made the records of a log are increasing
InCallOrder(ids) ==
    \A k \in 1..(Len(ids) - 1) : ids[k] < ids[k + 1]

\* C6, amended: every execute_task call adds one record at the end of one of
\* the two logs, decision_audit_trail (with process_log) when the call is not
\* escalated and escalation_queue when it is, and each log is in call order
C6_OneRecordPerCallInOneLog ==
    /\ Len(decision_audit_trail) + Len(escalation_queue) = calls
    /\ Len(process_log) = Len(decision_audit_trail)
    /\ \A k \in 1..Len(process_log) :
           decision_audit_trail[k] = process_log[k].audit_trail
    /\ InCallOrder([k \in 1..Len(decision_audit_trail) |->
                        decision_audit_trail[k].audit_log_id])
    /\ InCallOrder([k \in 1..Len(escalation_queue) |-> escalation_queue[k].execution_id])
    /\ execution # None =>
           IF compliance_check.requires_human_review /\ human_approval = None
           THEN execution = Last(escalation_queue)
           ELSE execution = Last(process_log)

\* one call was logged and the next one was escalated
C6_Witness ==
    /\ calls = 2
    /\ Len(decision_audit_trail) = 1
    /\ Len(escalation_queue) = 1
    /\ execution # None
    /\ execution.status = "escalated"
    /\ escalation_queue[1].execution_id = 2

\* C7: the status is GREEN for an average risk of at most 0.4, YELLOW above
\* 0.4 and up to 0.7, RED above 0.7 (0.3, 0.55 and 0.95 are GREEN, YELLOW and
\* RED), and requires_human_review holds exactly for YELLOW and RED
C7_ThreeBands ==
    /\ compliance_status(30) = GREEN
    /\ compliance_status(55) = YELLOW
    /\ compliance_status(95) = RED
    /\ Returned(compliance_check) =>
           LET risk == compliance_check.risk_score
               status == compliance_check.compliance_status
           IN /\ (status = GREEN) <=> (risk <= 40)
              /\ (status = YELLOW) <=> (risk > 40 /\ risk <= 70)
              /\ (status = RED) <=> (risk > 70)
              /\ compliance_check.requires_human_review <=> (status \in {YELLOW, RED})

\* a YELLOW result of two findings (0.5 and 0.7) that asks for a review
C7_Witness ==
    /\ Returned(compliance_check)
    /\ Len(compliance_check.rule_violations) = 2
    /\ compliance_check.risk_score = 60
    /\ compliance_check.compliance_status = YELLOW
    /\ compliance_check.requires_human_review

\* C8: a result without rule violations has risk_score 0.0, status GREEN and
\* asks for no review, and no validation ends in a division by zero
C8_EmptyAggregateIsZero ==
    compliance_check # None =>
        /\ compliance_check.raises # "ZeroDivisionError"
        /\ (compliance_check.raises = "none"
                /\ Len(compliance_check.rule_violations) = 0) =>
               /\ compliance_check.risk_score = 0
               /\ compliance_check.compliance_status = GREEN
               /\ ~compliance_check.requires_human_review

\* an invoice within tolerance and no duplicate: no finding
C8_Witness ==
    /\ Returned(compliance_check)
    /\ input.input_type = "invoice"
    /\ Len(compliance_check.rule_violations) = 0
    /\ compliance_check.risk_score = 0

\* C9: a procurement request of 75000 with vendor_rating at least 3.5,
\* executed without human_approval, is not escalated
C9_SemiAutonomousNotEscalated ==
    (/\ input # None
     /\ input.input_type = "procurement_request"
     /\ input.amount = 75000
     /\ Get(input.metadata, "vendor_rating", 0) >= 35
     /\ execution # None
     /\ human_approval = None) =>
        execution.status # "escalated"

\* C10: a procurement amount above 100000 gets RED, whatever the vendor
\* rating
C10_AboveEveryBoundIsRed ==
    (/\ compliance_check # None
     /\ pathway.name = "procurement_validation_routing"
     /\ input.amount > 100000) =>
        /\ compliance_check.raises = "none"
        /\ compliance_check.compliance_status = RED

\* an amount above 100000 from a vendor rated below 3.5: the findings 0.9 and
\* 0.7 average to 0.8
C10_Witness ==
    /\ Returned(compliance_check)
    /\ pathway.name = "procurement_validation_routing"
    /\ input.amount > 100000
    /\ compliance_check.risk_score = 80
    /\ compliance_check.compliance_status = RED

\* a procurement request whose amount is at or below every bound was validated
LowProcurementValidated ==
    /\ compliance_check # None
    /\ pathway.name = "procurement_validation_routing"
    /\ input.amount <= 50000

\* C11, as claimed: a procurement amount at or below 50000 gets GREEN and no
\* review, also when metadata has no vendor_rating
C11_BelowEveryBoundIsGreen ==
    LowProcurementValidated =>
        /\ compliance_check.raises = "none"
        /\ compliance_check.compliance_status = GREEN
        /\ ~compliance_check.requires_human_review

\* C11, amended: a procurement amount at or below 50000 gets GREEN and no
\* review exactly when metadata has a vendor_rating of at least 3.5; with a
\* lower rating, or none (read as 0), the one finding
\* vendor_rating_below_minimum gives risk 0.7, YELLOW and a review
C11_BelowEveryBoundIsGreenIfRated ==
    LowProcurementValidated =>
        /\ compliance_check.raises = "none"
        /\ IF Get(input.metadata, "vendor_rating", 0) >= 35
           THEN /\ compliance_check.rule_violations = <<>>
                /\ compliance_check.compliance_status = GREEN
                /\ ~compliance_check.requires_human_review
           ELSE /\ compliance_check.rule_violations = <<"vendor_rating_below_minimum">>
                /\ compliance_check.risk_score = 70
                /\ compliance_check.compliance_status = YELLOW
                /\ compliance_check.requires_human_review

\* a request of exactly 50000 without vendor_rating was validated: YELLOW
C11_Witness ==
    /\ LowProcurementValidated
    /\ input.amount = 50000
    /\ "vendor_rating" \notin DOMAIN input.metadata
    /\ compliance_check.raises = "none"
    /\ compliance_check.compliance_status = YELLOW

\* C15: validate_business_rules returns no compliance status for a negative
\* amount or a negative po_invoice_variance
C15_NegativeSignalRejected ==
    (/\ compliance_check # None
     /\ pathway.name \in {"procurement_validation_routing", "three_way_match_and_payment"}
     /\ Signal(input) < 0) =>
        compliance_check.raises # "none"

\* C18: an action of generate_inventory_recommendation requires approval
\* exactly when its decision level is HUMAN_REVIEW or ESCALATION, requires
\* none exactly when the level is AUTONOMOUS or SEMI_AUTONOMOUS, and has the
\* level ESCALATION only with a confidence below 0.65
C18_ApprovalIffReviewLevel ==
    action # None =>
        /\ action.decision_level \in DecisionLevel
        /\ action.requires_approval <=> action.decision_level \in {HUMAN_REVIEW, ESCALATION}
        /\ ~action.requires_approval <=> action.decision_level \in {AUTONOMOUS, SEMI_AUTONOMOUS}
        /\ action.decision_level = ESCALATION =>
               DoubleLess(action.confidence_score, Hundredths(65))

\* an action with confidence 0.70, between the two cutoffs, was generated: it
\* requires approval and its level is HUMAN_REVIEW, not ESCALATION
C18_Witness ==
    /\ action # None
    /\ action.confidence_score = Hundredths(70)
    /\ action.requires_approval
    /\ action.decision_level = HUMAN_REVIEW

\* C19: execute_inventory_action called with a planner returns status
\* 'executed' and executed_by 'planner_<id>', also for an action that an
\* earlier call escalated and for one whose decision level is ESCALATION
C19_ExecutedAfterApproval ==
    (/\ result # None
     /\ approved_by_planner # None) =>
        /\ result.status = "executed"
        /\ result.executed_by = "planner_" \o approved_by_planner.id

\* C12: a step that returns a classification, a validation result or an
\* inventory recommendation leaves every field of its agent as it was
\* (process_log, escalation_queue, decision_audit_trail, compliance_rules;
\* decision_log, escalation_queue, model_version, autonomy_level), and what it
\* returns is the value the arguments alone give, whatever was logged before
C12_EvaluationIsStateless ==
    [][ /\ (classification' # classification /\ classification' # None) =>
              /\ UNCHANGED vaa_fields
              /\ classification' = classify_input(input)
        /\ (compliance_check' # compliance_check /\ compliance_check' # None) =>
              /\ UNCHANGED vaa_fields
              /\ compliance_check' =
                     validate_business_rules(input, pathway.name,
                                             initialize_compliance_rules)
        /\ (action' # action) =>
              /\ UNCHANGED sc_fields
              /\ \E f \in Forecasts, c \in Inventories :
                     action' = vaa_generate_inventory_recommendation(autonomy_level, f, c, 14,
                                                                     Hundredths(20))
      ]_vars

\* an input was validated after an earlier call was logged and another was
\* escalated
C12_Witness ==
    /\ Returned(compliance_check)
    /\ execution = None
    /\ Len(process_log) = 1
    /\ Len(decision_audit_trail) = 1
    /\ Len(escalation_queue) = 1

\* C13: compliance_rules is the table _initialize_compliance_rules built,
\* and fairness_constraints the one _initialize_fairness_constraints built,
\* after any sequence of operations
C13_ThresholdsNeverMutated ==
    /\ compliance_rules = initialize_compliance_rules
    /\ fairness_constraints = initialize_fairness_constraints

\* every operation of the BusinessOperationsVAA has run: two execute_task
\* calls on allocated resources, each approved and each with one reading of
\* the clock for its two timestamps, then a monitoring report on their
\* average of exactly 4.0 hours, which is not above 4.0
C13_Witness ==
    /\ calls = 2
    /\ allocation # None
    /\ allocation.resource_availability_check
    /\ Len(process_log) = 2
    /\ processing_quarters(process_log) = 32
    /\ processing_microseconds(process_log) = 0
    /\ exceptions # None
    /\ exceptions.total_tasks_processed + exceptions.escalated_tasks = 2
    /\ exceptions.anomalies_detected = <<>>
    /\ compliance_rules.resource_allocation.max_concurrent_assignments = 3

\* new is old with entries added at the end
Extends(old, new) ==
    /\ Len(old) <= Len(new)
    /\ SubSeq(new, 1, Len(old)) = old

\* C14: in every step process_log, decision_audit_trail and escalation_queue
\* of the BusinessOperationsVAA, and decision_log and escalation_queue of the
\* DemandForecastingVAA, are unchanged or extended at the end
C14_LogsAreAppendOnly ==
    [][ /\ Extends(process_log, process_log')
        /\ Extends(decision_audit_trail, decision_audit_trail')
        /\ Extends(escalation_queue, escalation_queue')
        /\ Extends(decision_log, decision_log')
        /\ Extends(sc_escalation_queue, sc_escalation_queue')
      ]_vars

\* an action was escalated, then executed with a planner's approval, and is
\* still on the queue
C14_Witness ==
    /\ result # None
    /\ result.status = "executed"
    /\ approved_by_planner # None
    /\ sc_escalation_queue = <<action>>
    /\ Len(decision_log) = 1
    /\ decision_log[1].action_id = result.action_id

\* C16: a segment without a prohibited attribute in its targeting rules and
\* with fairness_score equal to min_fairness_score (0.70) is reported
\* compliant, and no fairness concern is logged for it
C16_EqualityIsCompliant ==
    (/\ fairness_check # None
     /\ fairness_check.prohibited_attributes_found = <<>>
     /\ checked_segment.fairness_score =
            fairness_constraints.fairness_thresholds.min_fairness_score) =>
        /\ fairness_check.is_compliant
        /\ \A k \in 1..Len(ethical_audit_trail) :
               ~(/\ "concern_id" \in DOMAIN ethical_audit_trail[k]
                 /\ ethical_audit_trail[k].segment_id = checked_segment.segment_id
                 /\ ethical_audit_trail[k].fairness_score = checked_segment.fairness_score)

\* every concurrent call has returned
AllReturned == \A t \in Threads : threads[t].pc = "done"

\* the concurrent calls that were not escalated
Executed == {t \in Threads : threads[t].execution.status = "executing"}

\* entry i of decision_audit_trail is the audit_trail of entry i of
\* process_log, as far as decision_audit_trail goes
Aligned ==
    /\ Len(decision_audit_trail) <= Len(process_log)
    /\ \A k \in 1..Len(decision_audit_trail) :
           decision_audit_trail[k] = process_log[k].audit_trail

\* C17, as claimed: when the two calls have returned, no record is lost and
\* entry i of decision_audit_trail is the audit_trail of entry i of
\* process_log
C17_InterleavedLogsAligned ==
    (threads # NoThreads /\ AllReturned) =>
        /\ Len(process_log) = Cardinality(Executed)
        /\ Len(decision_audit_trail) = Len(process_log)
        /\ Aligned

\* C17, amended: when the two calls have returned no record is lost: each
\* call that was not escalated has its record once in process_log and its
\* audit_trail once in decision_audit_trail, each escalated call has its
\* record once in escalation_queue, and the logs hold nothing else.  The two
\* logs are aligned as long as a call runs alone (the other has not begun or
\* has returned before it began); two calls that overlap may leave them in
\* different orders
C17_InterleavedLogsComplete ==
    threads # NoThreads =>
        /\ AllReturned =>
              /\ Len(process_log) = Cardinality(Executed)
              /\ Len(decision_audit_trail) = Cardinality(Executed)
              /\ Len(escalation_queue) = Cardinality(Threads \ Executed)
              /\ \A t \in Executed :
                    /\ \E k \in 1..Len(process_log) : process_log[k] = threads[t].execution
                    /\ \E k \in 1..Len(decision_audit_trail) :
                           decision_audit_trail[k] = threads[t].execution.audit_trail
              /\ \A t \in Threads \ Executed :
                    \E k \in 1..Len(escalation_queue) :
                        escalation_queue[k] = threads[t].execution
        /\ (\E t \in Threads : threads[t].pc = "start") => Aligned

\* both calls were executed and have returned, and the logs are in different
\* orders: the first entry of process_log is the second of decision_audit_trail
C17_Witness ==
    /\ threads # NoThreads
    /\ AllReturned
    /\ Executed = Threads
    /\ Len(process_log) = 2
    /\ Len(decision_audit_trail) = 2
    /\ decision_audit_trail[2] = process_log[1].audit_trail
    /\ decision_audit_trail[1] # process_log[1].audit_trail

\* C20: an audit called with the vaa_id of a registered VAA
\* ('SC_VAA_' + location_id) returns a report for that VAA with its
\* total_decisions, escalations_count and escalation_rate, and not
\* {'error': 'VAA not found'}
C20_AuditFindsRegisteredVaa ==
    [][ (audit' # audit \/ audit_vaa_id' # audit_vaa_id) =>
            \A l \in DOMAIN vaas :
                vaas[l].vaa_id = audit_vaa_id'.id =>
                    /\ "error" \notin DOMAIN audit'
                    /\ audit'.vaa_id = vaas[l].vaa_id
                    /\ audit'.total_decisions = Len(vaas[l].decision_log)
                    /\ audit'.escalations_count = Len(vaas[l].escalation_queue)
                    /\ "escalation_rate" \in DOMAIN audit'
      ]_vars

\* C21: an invoice whose po_invoice_variance exceeds
\* auto_match_variance_tolerance (0.02) gets a status other than GREEN and
\* requires_human_review, so that execute_task escalates it when no approval
\* is given
C21_VarianceAboveToleranceIsReviewed ==
    (/\ compliance_check # None
     /\ pathway.name = "three_way_match_and_payment"
     /\ Get(input.metadata, "po_invoice_variance", 0)
            > compliance_rules.invoicing.auto_match_variance_tolerance) =>
        /\ compliance_check.raises = "none"
        /\ compliance_check.compliance_status # GREEN
        /\ compliance_check.requires_human_review
        /\ must_escalate(compliance_check, None)

\* the invoices flagged is_duplicate, with every variance of Variances and
\* with none
DuplicateInvoices ==
    { i \in InvoiceInputs : Get(i.metadata, "is_duplicate", FALSE) }

\* the duplicate invoices handed to the stateful operations: one without a
\* variance and one in each band of the variance (within the tolerance, up
\* to the escalation threshold, above it)
QueuedDuplicates ==
    { i \in DuplicateInvoices :
        Get(i.metadata, "po_invoice_variance", 300) \in {0, 300, 800} }

\* a BusinessOperationsVAA that is handed duplicate invoices only, by a
\* caller who validates each, gets resources for it, whatever the draws of
\* the allocation are, and executes it without an approval
NextDuplicates ==
    \/ \E i \in QueuedDuplicates : ReceiveInput(i)
    \/ ClassifyInput
    \/ ValidateBusinessRules
    \/ \E busy \in BusyPatterns : AllocateResources(busy)
    \/ \E clock_gap \in ClockGaps : ExecuteTask(None, clock_gap)

SpecDuplicates == Init /\ [][NextDuplicates]_vars

\* the input in hand is an invoice flagged is_duplicate
DuplicateInvoice(i) ==
    /\ i # None
    /\ i.input_type = "invoice"
    /\ Get(i.metadata, "is_duplicate", FALSE)

\* validate_business_rules returns requires_human_review for a duplicate
\* invoice of every variance, and the guard of execute_task holds of it
EveryDuplicateIsReviewed ==
    \A i \in DuplicateInvoices :
        LET check == validate_business_rules(i, classify_input(i).process_pathway,
                                             initialize_compliance_rules)
        IN /\ check.raises = "none"
           /\ check.requires_human_review
           /\ must_escalate(check, None)

\* C22: a duplicate invoice is never executed autonomously: for each
\* po_invoice_variance validate_business_rules returns requires_human_review,
\* and execute_task without human_approval returns 'escalated', queues the
\* record and adds nothing to process_log or decision_audit_trail
C22_DuplicateNeverAutonomous ==
    [][/\ EveryDuplicateIsReviewed
       /\ DuplicateInvoice(input') =>
         /\ compliance_check' # None =>
                /\ compliance_check'.raises = "none"
                /\ compliance_check'.requires_human_review
                /\ "duplicate_invoice_detected" \in
                       {compliance_check'.rule_violations[k] :
                            k \in DOMAIN compliance_check'.rule_violations}
         /\ (calls' # calls /\ human_approval' = None) =>
                /\ execution'.status = "escalated"
                /\ process_log' = process_log
                /\ decision_audit_trail' = decision_audit_trail
                /\ Len(escalation_queue') = Len(escalation_queue) + 1
                /\ escalation_queue'[Len(escalation_queue')] = execution']_vars

\* a duplicate invoice with a variance between the tolerance and the
\* escalation threshold (average risk 0.7, YELLOW) was escalated by an
\* execute_task without approval, with ap_001 busy, after a duplicate of
\* another risk had been escalated
C22_Witness ==
    /\ DuplicateInvoice(input)
    /\ Get(input.metadata, "po_invoice_variance", 0) = 300
    /\ compliance_check # None
    /\ compliance_check.compliance_status = YELLOW
    /\ execution # None
    /\ execution.status = "escalated"
    /\ human_approval = None
    /\ process_log = <<>>
    /\ Len(escalation_queue) = 2
    /\ escalation_queue[2] = execution
    /\ escalation_queue[2].awaiting_approval_from = "ap_002"
    /\ escalation_queue[1].risk_score # escalation_queue[2].risk_score

\* a call of validate_pilot_results returns, on the criteria that
\* define_success_criteria has set
PilotValidationStep ==
    /\ <<pilot_actual_metrics, validation>>' # <<pilot_actual_metrics, validation>>
    /\ pilot_metrics = define_success_criteria

\* required_actions_before_scaling of the result names the metric
ActionRequiredFor(name, returned) ==
    \E j \in DOMAIN returned.required_actions_before_scaling :
        returned.required_actions_before_scaling[j].address = name

\* the result on the same figures with the named metric taken out of the
\* criteria
ValidationWithout(name, self_pilot_metrics, metrics) ==
    validate_pilot_results(
        SelectSeq(self_pilot_metrics, LAMBDA metric : metric.metric_name # name),
        metrics)

\* the named lower-is-better metric is counted as met when its value is at
\* or below target, and as below minimum when above minimum_acceptable
JudgedDownwards(name, target, minimum, self_pilot_metrics, metrics, returned) ==
    LET actual == metrics[name]
        rest == ValidationWithout(name, self_pilot_metrics, metrics)
    IN /\ ~DoubleLess(target, actual) =>
            /\ returned.metrics_meeting_targets = rest.metrics_meeting_targets + 1
            /\ returned.metrics_below_minimum = rest.metrics_below_minimum
            /\ ~ActionRequiredFor(name, returned)
       /\ DoubleLess(minimum, actual) =>
            /\ returned.metrics_below_minimum = rest.metrics_below_minimum + 1
            /\ returned.metrics_meeting_targets = rest.metrics_meeting_targets
            /\ ActionRequiredFor(name, returned)

\* C23: a lower-is-better criterion is judged in its own direction: an
\* Escalation Frequency at or below the target 0.10 is counted in
\* metrics_meeting_targets (and asks for no action), one above the minimum
\* acceptable 0.15 is counted in metrics_below_minimum (and asks for one)
C23_LowerIsBetterJudgedInOwnDirection ==
    [][(PilotValidationStep /\ "Escalation Frequency" \in DOMAIN pilot_actual_metrics') =>
           JudgedDownwards("Escalation Frequency", Hundredths(10), Hundredths(15),
                           pilot_metrics, pilot_actual_metrics', validation')]_vars

\* the criteria the result asks an action for, in the order of its entries
ActionsRequiredFor(returned) ==
    [j \in DOMAIN returned.required_actions_before_scaling |->
        returned.required_actions_before_scaling[j].address]

\* the names of the criteria whose figure is below their own
\* minimum_acceptable and target_value, in the order of the criteria
NamesBelowMinimum(self_pilot_metrics, metrics) ==
    LET judged_below(metric) ==
            /\ DoubleLess(actual_value(metric, metrics), metric.target_value)
            /\ DoubleLess(actual_value(metric, metrics), metric.minimum_acceptable)
        below == SelectSeq(self_pilot_metrics, judged_below)
    IN [j \in 1..Len(below) |-> below[j].metric_name]

\* C24: validate_pilot_results puts every criterion of pilot_metrics in
\* exactly one bucket (the three counts add up to the number of criteria),
\* recommends 'proceed_to_scale' exactly when metrics_below_minimum is 0 and
\* 'proceed_with_caution' otherwise, and required_actions_before_scaling
\* has one entry per metric below minimum
C24_EveryCriterionInOneBucket ==
    [][<<pilot_actual_metrics, validation>>' # <<pilot_actual_metrics, validation>> =>
         /\ validation'.metrics_meeting_targets + validation'.metrics_meeting_minimum
                + validation'.metrics_below_minimum = Len(pilot_metrics)
         /\ validation'.metrics_meeting_targets >= 0
         /\ validation'.metrics_meeting_minimum >= 0
         /\ validation'.metrics_below_minimum >= 0
         /\ validation'.go_no_go_recommendation =
                IF validation'.metrics_below_minimum = 0
                THEN "proceed_to_scale" ELSE "proceed_with_caution"
         /\ Len(validation'.required_actions_before_scaling) =
                validation'.metrics_below_minimum
         /\ ActionsRequiredFor(validation') =
                NamesBelowMinimum(pilot_metrics, pilot_actual_metrics')
         /\ pilot_metrics' = pilot_metrics]_vars

\* a validation of the five defined criteria that filled all three buckets,
\* one of the criteria below minimum being absent from actual_metrics
C24_Witness ==
    /\ validation # None
    /\ pilot_metrics = define_success_criteria
    /\ "Process Accuracy" \notin DOMAIN pilot_actual_metrics
    /\ validation = validate_pilot_results(pilot_metrics, pilot_actual_metrics)
    /\ validation.metrics_meeting_targets = 2
    /\ validation.metrics_meeting_minimum = 1
    /\ validation.metrics_below_minimum = 2
    /\ validation.go_no_go_recommendation = "proceed_with_caution"
    /\ Len(validation.required_actions_before_scaling) = 2

\* a call made on the VAA appended to one of its two logs
LogsGrew(old, new) ==
    Len(new.decision_log) + Len(new.escalation_queue)
        > Len(old.decision_log) + Len(old.escalation_queue)

\* one execute_inventory_action call on the VAA: one entry more in
\* escalation_queue (an action that requires approval) and decision_log
\* unchanged, or one entry more in decision_log (a result of a status other
\* than 'escalated') and escalation_queue unchanged
OneEntryInOneLog(old, new) ==
    \/ /\ Len(new.escalation_queue) = Len(old.escalation_queue) + 1
       /\ Extends(old.escalation_queue, new.escalation_queue)
       /\ new.escalation_queue[Len(new.escalation_queue)].requires_approval
       /\ new.decision_log = old.decision_log
    \/ /\ Len(new.decision_log) = Len(old.decision_log) + 1
       /\ Extends(old.decision_log, new.decision_log)
       /\ new.decision_log[Len(new.decision_log)].status # "escalated"
       /\ new.escalation_queue = old.escalation_queue

\* the cycle returned one forecast per product, in order, and filed the
\* result of each product's call under escalations (status 'escalated') or
\* under actions (any other status); the VAA's escalation_queue grew by the
\* former and its decision_log by the latter
CycleAccountsForEveryProduct(items, returned, old, new) ==
    /\ Len(returned.forecasts) = Len(items)
    /\ \A k \in 1..Len(items) : returned.forecasts[k].product_id = items[k].product_id
    /\ Len(returned.actions) + Len(returned.escalations) = Len(items)
    /\ \A k \in DOMAIN returned.escalations : returned.escalations[k].status = "escalated"
    /\ \A k \in DOMAIN returned.actions : returned.actions[k].status # "escalated"
    /\ Extends(old.escalation_queue, new.escalation_queue)
    /\ Len(new.escalation_queue) = Len(old.escalation_queue) + Len(returned.escalations)
    /\ new.decision_log = old.decision_log \o returned.actions

\* C25: each call to execute_inventory_action adds exactly one entry to
\* exactly one of the VAA's escalation_queue (status 'escalated') or
\* decision_log (any other status) and leaves the other unchanged;
\* process_inventory_cycle returns one forecast per product and
\* len(actions) + len(escalations) equal to the number of products, and
\* never changes the orchestrator's own escalation_queue or governance_log
C25_OneEntryPerCall ==
    [][ /\ cycle_args' = cycle_args =>
               \A l \in DOMAIN vaas \cap DOMAIN vaas' :
                   LogsGrew(vaas[l], vaas'[l]) => OneEntryInOneLog(vaas[l], vaas'[l])
        /\ cycle_args' # cycle_args =>
               /\ governance_log' = governance_log
               /\ orch_escalation_queue' = orch_escalation_queue
               /\ DOMAIN vaas' = DOMAIN vaas
               /\ \A l \in DOMAIN vaas : l # cycle_args'.location_id => vaas'[l] = vaas[l]
               /\ IF cycle_args'.location_id \in DOMAIN vaas
                  THEN /\ cycle_results'.raises = "none"
                       /\ cycle_results'.location_id = cycle_args'.location_id
                       /\ CycleAccountsForEveryProduct(
                              cycle_args'.current_inventory, cycle_results',
                              vaas[cycle_args'.location_id],
                              vaas'[cycle_args'.location_id])
                  ELSE /\ cycle_results'.raises = "KeyError"
                       /\ vaas' = vaas
      ]_vars

\* the second cycle the caller ran went over two products and returned one
\* action and one escalation, which are the entries of the VAA's two logs
C25_Witness ==
    /\ cycle_results # None
    /\ cycle_results.raises = "none"
    /\ cycle_args.call = 2
    /\ Len(cycle_args.current_inventory) = 2
    /\ Len(cycle_results.forecasts) = 2
    /\ Len(cycle_results.actions) = 1
    /\ Len(cycle_results.escalations) = 1
    /\ vaas[cycle_args.location_id].decision_log = cycle_results.actions
    /\ Len(vaas[cycle_args.location_id].escalation_queue) = 1
    /\ vaas[cycle_args.location_id].escalation_queue[1].product_id = "PROD_002"

====
